---- MODULE Spec2Model ----
(***************************************************************************)
(* Models of the fetch / transform / resolve / upsert pipelines of the     *)
(* astro-bet-advisor ingestion scripts.  The scripts share no state, so    *)
(* each pipeline is a state machine over its own record variable and has   *)
(* its own specification; the other variables stay at their idle value.    *)
(***************************************************************************)
EXTENDS Integers, Sequences, FiniteSets, TLC

VARIABLES
    up,     \* the chunked upsert loops of nba_data_sync.py
    sm,     \* SupabaseManager.upsert_players of sync_sports_data.py
    pg,     \* the paginated fetches get_players and get_all_players
    fd,     \* one call of NBADataSync.fetch_data, with its retries
    rl,     \* the fetch loops of fetch_team_stats.py and ingest_teams.py
    ca,     \* the id caches of SportsDataFetcher (fetch_mlb_games.py)
    us,     \* upsert_data_to_supabase (fetch_mlb_data.py) called twice
    ml,     \* one run of main of fetch_mlb_data.py
    pp,     \* one record through process_player or the ESPN player step
    tl,     \* the record-by-record transform loops before an upsert
    sl,     \* one call of SportsDataSync.sync_league
    ex,     \* one run of a script, from its start to its exit status
    pu,     \* one run of PlayerStatsUpdater.run
    rt,     \* the clock of NBADataSync.rate_limit over successive fetch_data calls
    rr,     \* fetch_mlb_data.main run again after an interruption
    nm,     \* one height or weight value put through a normalisation
    cs,     \* one call of NBAPlayerStatsFetcher.get_all_players_stats
    er,     \* one run of scrape_espn_rosters_html.main
    cd,     \* one call of cleanup_duplicate_teams
    sb      \* the stats phase of NBADataSync.run

vars == <<up, sm, pg, fd, rl, ca, us, ml, pp, tl, sl, ex, pu, rt, rr, nm, cs, er, cd, sb>>

\* what the actions of one machine leave alone
OthersOfUp == <<sm, pg, fd, rl, ca, us, ml, pp, tl, sl, ex, pu, rt, rr, nm, cs, er, cd, sb>>
OthersOfSm == <<up, pg, fd, rl, ca, us, ml, pp, tl, sl, ex, pu, rt, rr, nm, cs, er, cd, sb>>
OthersOfPg == <<up, sm, fd, rl, ca, us, ml, pp, tl, sl, ex, pu, rt, rr, nm, cs, er, cd, sb>>
OthersOfFd == <<up, sm, pg, rl, ca, us, ml, pp, tl, sl, ex, pu, rt, rr, nm, cs, er, cd, sb>>
OthersOfRl == <<up, sm, pg, fd, ca, us, ml, pp, tl, sl, ex, pu, rt, rr, nm, cs, er, cd, sb>>
OthersOfCa == <<up, sm, pg, fd, rl, us, ml, pp, tl, sl, ex, pu, rt, rr, nm, cs, er, cd, sb>>
OthersOfUs == <<up, sm, pg, fd, rl, ca, ml, pp, tl, sl, ex, pu, rt, rr, nm, cs, er, cd, sb>>
OthersOfMl == <<up, sm, pg, fd, rl, ca, us, pp, tl, sl, ex, pu, rt, rr, nm, cs, er, cd, sb>>
OthersOfPp == <<up, sm, pg, fd, rl, ca, us, ml, tl, sl, ex, pu, rt, rr, nm, cs, er, cd, sb>>
OthersOfTl == <<up, sm, pg, fd, rl, ca, us, ml, pp, sl, ex, pu, rt, rr, nm, cs, er, cd, sb>>
OthersOfSl == <<up, sm, pg, fd, rl, ca, us, ml, pp, tl, ex, pu, rt, rr, nm, cs, er, cd, sb>>
OthersOfEx == <<up, sm, pg, fd, rl, ca, us, ml, pp, tl, sl, pu, rt, rr, nm, cs, er, cd, sb>>
OthersOfPu == <<up, sm, pg, fd, rl, ca, us, ml, pp, tl, sl, ex, rt, rr, nm, cs, er, cd, sb>>
OthersOfRt == <<up, sm, pg, fd, rl, ca, us, ml, pp, tl, sl, ex, pu, rr, nm, cs, er, cd, sb>>
OthersOfRerun == <<up, sm, pg, fd, rl, ca, us, pp, tl, sl, ex, pu, rt, nm, cs, er, cd, sb>>
OthersOfNm == <<up, sm, pg, fd, rl, ca, us, ml, pp, tl, sl, ex, pu, rt, rr, cs, er, cd, sb>>
OthersOfCs == <<up, sm, pg, fd, rl, ca, us, ml, pp, tl, sl, ex, pu, rt, rr, nm, er, cd, sb>>
OthersOfEr == <<up, sm, pg, fd, rl, ca, us, ml, pp, tl, sl, ex, pu, rt, rr, nm, cs, cd, sb>>
OthersOfCd == <<up, sm, pg, fd, rl, ca, us, ml, pp, tl, sl, ex, pu, rt, rr, nm, cs, er, sb>>
OthersOfSb == <<up, sm, pg, fd, rl, ca, us, ml, pp, tl, sl, ex, pu, rt, rr, nm, cs, er, cd>>

(***************************************************************************)
(* Bounds of the model.                                                    *)
(***************************************************************************)
\* rows handed to one call of a chunked upsert
MaxRows == 4
\* rows per chunk; stands for BATCH_SIZE = 10 (nba_data_sync.py:46) and the
\* local batch_size = 50 of the other two loops
ChunkSize == 2
\* vendor player records handed to SupabaseManager.upsert_players
MaxPlayers == 3
\* records the vendor holds behind a paginated endpoint
MaxData == 6
\* page sizes tried; stands for limit = 100 (nba_data_sync.py:205) and
\* limit = 50 (sync_nba_players_with_stats.py:97)
MaxLimit == 3
\* values random.uniform(0, 1) is drawn from: 0, 1/JitterSteps, ... below 1;
\* delays are counted in units of 1/JitterSteps second
JitterSteps == 4
\* 429 answers counted in a fetch loop; further ones leave the count as it is
AttemptsShown == 3
\* calls of get_team_id and get_league_id in one run
MaxCalls == 3
\* rows handed to one call of upsert_data_to_supabase
MaxUpsertRows == 2
\* teams the vendor lists
MaxTeams == 2
\* vendor records handed to a transform loop
MaxRecords == 3
\* self.total_errors when process_player is called
MaxErrors == 1

\* players in the store at the start of PlayerStatsUpdater.run
MaxUpdaterPlayers == 12

\* fetch_data calls made one after another
MaxTimedCalls == 2

\* longest wait of the clock, in clock steps, that is told apart from a
\* sleep: the answer to a request, the caller's work between two calls
MaxLag == 2

\* player ids in the store, and the buffer length at which the stats phase
\* of NBADataSync.run flushes (20 in nba_data_sync.py:876, scaled down)
MaxStatsIds == 7

StatsFlushAt == 3

\* rows of the teams table, cleanup_duplicate_teams.py
MaxCleanupRows == 4

\* teams of MLB_TEAMS and players of one roster, scrape_espn_rosters_html.py
MaxRosterTeams == 2

MaxRoster == 3

\* records the vendor holds, batch_size and max_players of
\* get_all_players_stats
MaxStatsRecords == 4

MaxBatchSize == 2

MaxCap == 3

\* largest feet and inches of a height, largest weight tried
MaxFeet == 7

MaxInches == 12

MaxPounds == 12

\* interruptions of one run of fetch_mlb_data.main
MaxInterrupts == 1

(***************************************************************************)
(* Helpers.                                                                *)
(***************************************************************************)
Min(a, b) == IF a < b THEN a ELSE b

Range(s) == {s[k] : k \in DOMAIN s}

\* Python's s[i:i+n] for a 0-based start i
Slice(s, i, n) == SubSeq(s, i + 1, Min(i + n, Len(s)))

\* None, where a field of the model is a string
Null == "<null>"

\* the sequence 1, 2, ..., n
Iota(n) == [k \in 1..n |-> k]

(***************************************************************************)
(* The value of each machine's variable while another machine runs.        *)
(***************************************************************************)
PgIdle ==
    [script |-> "none", pc |-> "idle", n |-> 0, limit |-> 1, offset |-> 0,
     players |-> <<>>, requests |-> 0, pageLens |-> <<>>, failed |-> FALSE]

FdIdle ==
    [pc |-> "idle", retry_count |-> 0, requests |-> 0, delays |-> <<>>,
     errors |-> 0, last |-> "none", result |-> "pending"]

RlIdle ==
    [script |-> "none", pc |-> "idle", mode |-> "any", n |-> 0, limit |-> 1,
     offset |-> 0, all_stats |-> <<>>, rateLimited |-> 0, slept |-> 0,
     result |-> "pending"]

CaIdle ==
    [pc |-> "idle", teams |-> {}, leagues |-> {}, team_cache |-> <<>>,
     league_cache |-> <<>>, teamReads |-> 0, leagueReads |-> 0, calls |-> 0,
     returned |-> "pending"]

\* the destination tables fetch_mlb_data.py writes, empty; a stored row is
\* [id, ek, ext, key, val]: its internal id, its external_id (ek says whether
\* the column holds a value, None, or was never given), the columns
\* (player_id, team_id) of a stats row, and its other columns; the store
\* draws internal ids from 11 on, so that none is a vendor id of the model
EmptyStore ==
    [teams |-> <<>>, players |-> <<>>, player_season_stats |-> <<>>,
     games |-> <<>>, nextId |-> 11]

UsIdle ==
    [pc |-> "idle", table |-> "teams", data |-> <<>>, unique |-> FALSE,
     store |-> EmptyStore, once |-> EmptyStore, result |-> <<>>]

MlIdle ==
    [pc |-> "idle", teams |-> <<>>, rosters |-> <<>>, player_stats |-> <<>>,
     games |-> <<>>, selectRaises |-> {}, unique |-> FALSE,
     store |-> EmptyStore, league_id |-> 0, team_key_to_id |-> <<>>,
     skippedRosters |-> {}, rostersDone |-> FALSE, all_player_data |-> <<>>,
     playersResult |-> <<>>, player_key_to_id |-> <<>>, stats_data |-> <<>>,
     game_data |-> <<>>]

\* a row of nba_players as process_player builds it (team_id 0 is None), and
\* a players row as scrape_and_update builds it
NoRow ==
    [id |-> "", external_player_id |-> "", first_name |-> "",
     last_name |-> "", team_id |-> 0]

PpIdle ==
    [pc |-> "idle", script |-> "none",
     player_data |-> [player |-> "absent", id |-> 0, firstName |-> "",
                      lastName |-> "", currentTeam |-> "absent", teamId |-> 0],
     sport |-> "nba", team_id |-> 0, player_id |-> 0,
     outcome |-> "pending", row |-> NoRow, record |-> <<>>,
     total_errors |-> 0]

TlIdle ==
    [pc |-> "idle", script |-> "none", records |-> <<>>, k |-> 1,
     transformed |-> <<>>, logged |-> {}, sent |-> {}, raised |-> FALSE]

SlIdle ==
    [pc |-> "idle", hasClient |-> FALSE, executed |-> {}, logged |-> {},
     team_id_map |-> "unset", players |-> "unset", stats |-> "unset",
     games |-> "unset", teams |-> "unset", all_players |-> "unset"]

ExIdle ==
    [script |-> "none", vendor |-> FALSE, store |-> FALSE, pc |-> "idle",
     status |-> 0, requests |-> 0, errors |-> 0, left |-> 0,
     failed |-> "none"]

PuIdle ==
    [pc |-> "idle", players |-> 0, i |-> 0, batch |-> 0,
     created |-> <<>>, search |-> <<>>, gamelogs |-> <<>>,
     completed |-> <<>>, total_processed |-> 0, total_errors |-> 0,
     returned |-> 0, raised |-> 0]

RtIdle ==
    [pc |-> "idle", since |-> 0, calls |-> 0, retry_count |-> 0,
     requests |-> 0, slept |-> 0, minGap |-> 0]

RrIdle == [mode |-> "idle", single |-> EmptyStore, interrupts |-> 0]

NmIdle ==
    [pc |-> "idle", fn |-> "none", feet |-> 0, inches |-> 0, pounds |-> 0,
     suffix |-> <<>>, out |-> [t |-> "None", n |-> 0, s |-> <<>>],
     plain |-> [t |-> "None", n |-> 0, s |-> <<>>]]

CsIdle ==
    [pc |-> "idle", n |-> 0, batch_size |-> 1, capped |-> FALSE,
     max_players |-> 0, held |-> 0, offset |-> 0, request_delay |-> 2,
     attempt |-> 0, current_limit |-> 0, requests |-> 0, pages |-> 0,
     lastLen |-> 0, wrongLimit |-> FALSE, endedOn |-> <<>>,
     sameOffsetAgain |-> 0]

ErIdle ==
    [pc |-> "idle", rosters |-> <<>>, t |-> 0, p |-> 0, upserted |-> {},
     returned |-> <<>>, processed_teams |-> {}]

CdIdle ==
    [pc |-> "idle", before |-> <<>>, table |-> <<>>, teams_to_delete |-> <<>>,
     k |-> 0]

SbIdle ==
    [pc |-> "idle", total_players |-> 0, at |-> 0, stats_list |-> <<>>,
     handed |-> <<>>, returned |-> {}, flushes |-> 0, processed |-> 0,
     completed |-> FALSE]

(***************************************************************************)
(* The chunked upsert loops of nba_data_sync.py.                           *)
(*                                                                         *)
(* A row of the input is "ok" (it carries the key the loop needs) or       *)
(* "noid" (it does not).  The store is outside the scripts: every call to  *)
(* it succeeds or raises, as the environment chooses.                      *)
(*   rows        the input list                                            *)
(*   todo        the indices of the rows the chunk loop runs over          *)
(*   i           the loop variable of  for i in range(0, len, size)        *)
(*   clean, j    the rows of the chunk being upserted one by one, and the  *)
(*               position of the next one                                  *)
(*   batchTried  the values of i for which a batched upsert was issued     *)
(*   batchOk     the values of i for which it succeeded                    *)
(*   rowTried    per row, the number of single-row upserts issued          *)
(*   rowOk       the rows whose single-row upsert succeeded                *)
(*   rowLogged   the rows whose single-row failure was logged              *)
(*   count       successful_upserts                                        *)
(*   errors      the increments of self.total_errors                       *)
(*   colAdded    the values of i at which a missing column was added       *)
(*   ret         the value returned (-1 until the call returns)            *)
(***************************************************************************)
RowFlags == {"ok", "noid"}

RowInputs == UNION {[1..n -> RowFlags] : n \in 0..MaxRows}

UpIdle ==
    [script |-> "none", pc |-> "idle", rows |-> <<>>, todo |-> <<>>, i |-> 0,
     clean |-> <<>>, j |-> 0, batchTried |-> {}, batchOk |-> {},
     rowTried |-> <<>>, rowOk |-> {}, rowLogged |-> {}, count |-> 0,
     errors |-> 0, colAdded |-> {}, ret |-> -1]

UpCall(script, rows) ==
    [UpIdle EXCEPT !.script = script, !.pc = "call", !.rows = rows,
                   !.rowTried = [k \in 1..Len(rows) |-> 0]]

\* the indices (into rows) of the chunk that starts at offset i of todo
Chunk(u) == Slice(u.todo, u.i, ChunkSize)

HasId(u, k) == u.rows[k] = "ok"

\* the end of one pass of the for loop: the next chunk, or the loop is over
\* and the function logs the totals and returns the count
LoopStep(u) ==
    IF u.i + ChunkSize < Len(u.todo)
    THEN [u EXCEPT !.pc = "batch", !.i = u.i + ChunkSize, !.clean = <<>>, !.j = 0]
    ELSE [u EXCEPT !.pc = "done", !.clean = <<>>, !.j = 0, !.ret = u.count]

\* the statement requested for a break: the sync_players_to_db loop is left
\* at once, whatever chunks remain
LoopBreak(u) ==
    [u EXCEPT !.pc = "done", !.clean = <<>>, !.j = 0, !.ret = u.count]

(* ---- NBADataSync.sync_players_to_db ---------------------------------- *)

\* if not players: return 0.  Otherwise the loop starts at i = 0 over all
\* the players (the schema probe only narrows the columns of each row).
sync_players_to_db_enter ==
    /\ up.script = "sync_players_to_db" /\ up.pc = "call"
    /\ up' = IF up.rows = <<>>
             THEN [up EXCEPT !.pc = "done", !.ret = 0]
             ELSE [up EXCEPT !.pc = "batch", !.todo = Iota(Len(up.rows)), !.i = 0]
    /\ UNCHANGED OthersOfUp

\* clean_batch keeps the rows that carry an id
CleanBatch(u) == SelectSeq(Chunk(u), LAMBDA k : HasId(u, k))

\* if not clean_batch: continue
sync_players_to_db_empty_batch ==
    /\ up.script = "sync_players_to_db" /\ up.pc = "batch"
    /\ CleanBatch(up) = <<>>
    /\ up' = LoopStep(up)
    /\ UNCHANGED OthersOfUp

\* the batched upsert succeeds
sync_players_to_db_batch_ok ==
    /\ up.script = "sync_players_to_db" /\ up.pc = "batch"
    /\ CleanBatch(up) # <<>>
    /\ up' = LoopStep([up EXCEPT !.batchTried = @ \cup {up.i},
                                 !.batchOk = @ \cup {up.i},
                                 !.count = @ + Len(CleanBatch(up))])
    /\ UNCHANGED OthersOfUp

\* the batched upsert raises an error that names no missing column: the
\* rows of the chunk are upserted one by one
sync_players_to_db_batch_raises ==
    /\ up.script = "sync_players_to_db" /\ up.pc = "batch"
    /\ CleanBatch(up) # <<>>
    /\ up' = [up EXCEPT !.batchTried = @ \cup {up.i}, !.pc = "rows",
                        !.clean = CleanBatch(up), !.j = 1]
    /\ UNCHANGED OthersOfUp

\* the batched upsert raises  column "c" does not exist  and the rpc
\* add_column_if_not_exists succeeds:  i -= BATCH_SIZE; break
sync_players_to_db_column_added ==
    /\ up.script = "sync_players_to_db" /\ up.pc = "batch"
    /\ CleanBatch(up) # <<>>
    /\ up' = LoopBreak([up EXCEPT !.batchTried = @ \cup {up.i},
                                  !.colAdded = @ \cup {up.i}])
    /\ UNCHANGED OthersOfUp

\* the same error, and the rpc raises too: fall through to the single rows
sync_players_to_db_column_not_added ==
    /\ up.script = "sync_players_to_db" /\ up.pc = "batch"
    /\ CleanBatch(up) # <<>>
    /\ up' = [up EXCEPT !.batchTried = @ \cup {up.i}, !.pc = "rows",
                        !.clean = CleanBatch(up), !.j = 1]
    /\ UNCHANGED OthersOfUp

\* after the last row of the chunk the for loop goes on
AfterRow(u) ==
    IF u.j >= Len(u.clean) THEN LoopStep(u) ELSE [u EXCEPT !.j = u.j + 1]

sync_players_to_db_row_ok ==
    /\ up.script = "sync_players_to_db" /\ up.pc = "rows"
    /\ LET k == up.clean[up.j]
       IN up' = AfterRow([up EXCEPT !.rowTried[k] = @ + 1,
                                    !.rowOk = @ \cup {k},
                                    !.count = @ + 1])
    /\ UNCHANGED OthersOfUp

sync_players_to_db_row_raises ==
    /\ up.script = "sync_players_to_db" /\ up.pc = "rows"
    /\ LET k == up.clean[up.j]
       IN up' = AfterRow([up EXCEPT !.rowTried[k] = @ + 1,
                                    !.rowLogged = @ \cup {k},
                                    !.errors = @ + 1])
    /\ UNCHANGED OthersOfUp

(* ---- NBADataSync.sync_player_stats_to_db ------------------------------ *)

\* stats_to_upsert: the entries that carry external_player_id
ValidStats(u) == SelectSeq(Iota(Len(u.rows)), LAMBDA k : HasId(u, k))

\* if not stats_list: return 0; the table is reachable; the invalid entries
\* are dropped; if none is left: return 0
sync_player_stats_to_db_enter ==
    /\ up.script = "sync_player_stats_to_db" /\ up.pc = "call"
    /\ up' = IF up.rows = <<>> \/ ValidStats(up) = <<>>
             THEN [up EXCEPT !.pc = "done", !.ret = 0]
             ELSE [up EXCEPT !.pc = "batch", !.todo = ValidStats(up), !.i = 0]
    /\ UNCHANGED OthersOfUp

\* ensure_player_stats_schema returns False: return 0 before any upsert
sync_player_stats_to_db_no_table ==
    /\ up.script = "sync_player_stats_to_db" /\ up.pc = "call"
    /\ up.rows # <<>>
    /\ up' = [up EXCEPT !.pc = "done", !.ret = 0]
    /\ UNCHANGED OthersOfUp

\* the batched upsert returns data
sync_player_stats_to_db_batch_ok ==
    /\ up.script = "sync_player_stats_to_db" /\ up.pc = "batch"
    /\ up' = LoopStep([up EXCEPT !.batchTried = @ \cup {up.i},
                                 !.batchOk = @ \cup {up.i},
                                 !.count = @ + Len(Chunk(up))])
    /\ UNCHANGED OthersOfUp

\* the batched upsert raises
sync_player_stats_to_db_batch_raises ==
    /\ up.script = "sync_player_stats_to_db" /\ up.pc = "batch"
    /\ up' = [up EXCEPT !.batchTried = @ \cup {up.i}, !.pc = "rows",
                        !.clean = Chunk(up), !.j = 1]
    /\ UNCHANGED OthersOfUp

\* the batched upsert returns no data: raise Exception("No data returned
\* from upsert"), caught by the same handler
sync_player_stats_to_db_batch_no_data ==
    /\ up.script = "sync_player_stats_to_db" /\ up.pc = "batch"
    /\ up' = [up EXCEPT !.batchTried = @ \cup {up.i}, !.pc = "rows",
                        !.clean = Chunk(up), !.j = 1]
    /\ UNCHANGED OthersOfUp

sync_player_stats_to_db_row_ok ==
    /\ up.script = "sync_player_stats_to_db" /\ up.pc = "rows"
    /\ LET k == up.clean[up.j]
       IN up' = AfterRow([up EXCEPT !.rowTried[k] = @ + 1,
                                    !.rowOk = @ \cup {k},
                                    !.count = @ + 1])
    /\ UNCHANGED OthersOfUp

\* a slip the fallback could have: the first failing row ends the chunk
sync_player_stats_to_db_row_raises_break ==
    /\ up.script = "sync_player_stats_to_db" /\ up.pc = "rows"
    /\ LET k == up.clean[up.j]
       IN up' = LoopStep([up EXCEPT !.rowTried[k] = @ + 1,
                                    !.rowLogged = @ \cup {k}])
    /\ UNCHANGED OthersOfUp

\* the error is logged (with a schema warning for a missing column) and the
\* loop goes on with the next record
sync_player_stats_to_db_row_raises ==
    /\ up.script = "sync_player_stats_to_db" /\ up.pc = "rows"
    /\ LET k == up.clean[up.j]
       IN up' = AfterRow([up EXCEPT !.rowTried[k] = @ + 1,
                                    !.rowLogged = @ \cup {k}])
    /\ UNCHANGED OthersOfUp

UpInit ==
    \E s \in {"sync_players_to_db", "sync_player_stats_to_db"} :
        \E r \in RowInputs : up = UpCall(s, r)

UpNext ==
    \/ sync_players_to_db_enter
    \/ sync_players_to_db_empty_batch
    \/ sync_players_to_db_batch_ok
    \/ sync_players_to_db_batch_raises
    \/ sync_players_to_db_column_added
    \/ sync_players_to_db_column_not_added
    \/ sync_players_to_db_row_ok
    \/ sync_players_to_db_row_raises
    \/ sync_player_stats_to_db_enter
    \/ sync_player_stats_to_db_no_table
    \/ sync_player_stats_to_db_batch_ok
    \/ sync_player_stats_to_db_batch_raises
    \/ sync_player_stats_to_db_batch_no_data
    \/ sync_player_stats_to_db_row_ok
    \/ sync_player_stats_to_db_row_raises

(***************************************************************************)
(* SupabaseManager.upsert_players (sync_sports_data.py).                   *)
(*                                                                         *)
(* A vendor player record is modelled by what the function reads of it:    *)
(* teams, the values of its team fields in the order the function tries    *)
(* them (CurrentTeamID, TeamID, CurrentTeam, Team; the absent ones left    *)
(* out), whether it has a name, and whether it has the key PlayerID.  The  *)
(* k-th record has PlayerID k.  The store answers a successful POST with   *)
(* the written rows (the session sends Prefer: return=representation).     *)
(*   players     the vendor records                                        *)
(*   teamMap     team_id_map: str(external team id) -> str(internal id)    *)
(*   upsertData  the rows prepared for the store                           *)
(*   skipped     the records left out by a `continue`                      *)
(*   logged      the records whose transform raised, and was logged        *)
(*   written     the external ids of the rows the store has written        *)
(*   allResults  all_results, the rows the store returned                  *)
(*   count       total_upserted                                            *)
(*   ret         the id map returned ("none" until the call returns)       *)
(***************************************************************************)
TeamIds == {1, 2}

\* the ids the store assigns: not the vendor's ids
TeamRowId(t) == 10 + t

PlayerRowId(e) == 100 + e

PlayerKinds ==
    { [teams |-> <<1>>,    named |-> TRUE,  keyed |-> TRUE],
      [teams |-> <<2>>,    named |-> TRUE,  keyed |-> TRUE],
      [teams |-> <<2, 1>>, named |-> TRUE,  keyed |-> TRUE],
      [teams |-> <<>>,     named |-> TRUE,  keyed |-> TRUE],
      [teams |-> <<1>>,    named |-> FALSE, keyed |-> TRUE],
      [teams |-> <<1>>,    named |-> TRUE,  keyed |-> FALSE] }

PlayerInputs == UNION {[1..n -> PlayerKinds] : n \in 0..MaxPlayers}

\* {str(team['external_id']): str(team['id']) for team in teams}
TeamMapOf(T) == [s \in {ToString(t) : t \in T} |->
                    ToString(TeamRowId(CHOOSE t \in T : ToString(t) = s))]

SmIdle ==
    [pc |-> "idle", players |-> <<>>, teamMap |-> <<>>, upsertData |-> <<>>,
     skipped |-> {}, logged |-> {}, i |-> 0, j |-> 0, batchTried |-> {},
     batchOk |-> {}, rowTried |-> <<>>, rowOk |-> {}, rowLogged |-> {},
     written |-> {}, allResults |-> <<>>, count |-> 0, ret |-> "none"]

\* team_id_map.get(str(player[field])) over the fields in order, stopping at
\* the first that resolves; "null" when none does
ResolveTeam(p, teamMap) ==
    LET hits == SelectSeq(p.teams, LAMBDA t : ToString(t) \in DOMAIN teamMap)
    IN IF hits = <<>> THEN "null" ELSE teamMap[ToString(hits[1])]

\* a transform that keeps a player whose team does not resolve
RowOutcomeKeepsUnresolved(p, teamMap) ==
    IF ~p.named THEN "skip"
    ELSE IF ~p.keyed THEN "error"
    ELSE "row"

\* the body of  for player in players_data : "skip" for a `continue`,
\* "error" for the KeyError of player['PlayerID'] (caught and logged), else
\* "row"
RowOutcome(p, teamMap) ==
    IF ResolveTeam(p, teamMap) = "null" THEN "skip"
    ELSE IF ~p.named THEN "skip"
    ELSE IF ~p.keyed THEN "error"
    ELSE "row"

\* player_data for the k-th record, whose PlayerID is k
PrepareRow(p, k, teamMap) ==
    [external_id |-> k, current_team_id |-> ResolveTeam(p, teamMap)]

\* the transform loop, then  if not upsert_data: return {}
Prepare(s, teamMap) ==
    LET idx  == Iota(Len(s.players))
        out(k) == RowOutcome(s.players[k], teamMap)
        kept == SelectSeq(idx, LAMBDA k : out(k) = "row")
        data == [n \in 1..Len(kept) |->
                    PrepareRow(s.players[kept[n]], kept[n], teamMap)]
        t    == [s EXCEPT !.teamMap = teamMap,
                          !.upsertData = data,
                          !.skipped = {k \in Range(idx) : out(k) = "skip"},
                          !.logged = {k \in Range(idx) : out(k) = "error"},
                          !.rowTried = [n \in 1..Len(data) |-> 0]]
    IN IF data = <<>>
       THEN [t EXCEPT !.pc = "done", !.ret = <<>>]
       ELSE [t EXCEPT !.pc = "batch", !.i = 0]

\* if not players_data: return {};  an empty team_id_map is first read from
\* the teams table
upsert_players_enter ==
    /\ sm.pc = "call"
    /\ sm' = IF sm.players = <<>> THEN [sm EXCEPT !.pc = "done", !.ret = <<>>]
             ELSE IF sm.teamMap = <<>> THEN [sm EXCEPT !.pc = "teams"]
             ELSE Prepare(sm, sm.teamMap)
    /\ UNCHANGED OthersOfSm

\* GET teams?select=id,external_id  returns a non-empty list
upsert_players_teams_read ==
    /\ sm.pc = "teams"
    /\ \E T \in (SUBSET TeamIds) \ {{}} : sm' = Prepare(sm, TeamMapOf(T))
    /\ UNCHANGED OthersOfSm

\* the read raises or returns nothing: return {}
upsert_players_teams_unread ==
    /\ sm.pc = "teams"
    /\ sm' = [sm EXCEPT !.pc = "done", !.ret = <<>>]
    /\ UNCHANGED OthersOfSm

\* the positions (in upsert_data) of the chunk at offset i
SmChunk(s) == Slice(Iota(Len(s.upsertData)), s.i, ChunkSize)

\* id_map: str(external_id) -> str(id) over all_results
IdMapOf(results) ==
    [e \in {ToString(r.external_id) : r \in Range(results)} |->
        LET last == CHOOSE n \in DOMAIN results :
                        /\ ToString(results[n].external_id) = e
                        /\ \A m \in DOMAIN results :
                              ToString(results[m].external_id) = e => m <= n
        IN ToString(results[last].id)]

\* what the store returns for a written row
Representation(row) ==
    [external_id |-> row.external_id, id |-> PlayerRowId(row.external_id)]

SmLoopStep(s) ==
    IF s.i + ChunkSize < Len(s.upsertData)
    THEN [s EXCEPT !.pc = "batch", !.i = s.i + ChunkSize, !.j = 0]
    ELSE [s EXCEPT !.pc = "done", !.j = 0, !.ret = IdMapOf(s.allResults)]

upsert_players_batch_ok ==
    /\ sm.pc = "batch"
    /\ LET rows == [n \in DOMAIN SmChunk(sm) |-> sm.upsertData[SmChunk(sm)[n]]]
           result == [n \in DOMAIN rows |-> Representation(rows[n])]
       IN sm' = SmLoopStep([sm EXCEPT
                    !.batchTried = @ \cup {sm.i},
                    !.batchOk = @ \cup {sm.i},
                    !.written = @ \cup {r.external_id : r \in Range(rows)},
                    !.allResults = @ \o result,
                    !.count = @ + Len(result)])
    /\ UNCHANGED OthersOfSm

upsert_players_batch_raises ==
    /\ sm.pc = "batch"
    /\ sm' = [sm EXCEPT !.batchTried = @ \cup {sm.i}, !.pc = "rows", !.j = 1]
    /\ UNCHANGED OthersOfSm

SmAfterRow(s) ==
    IF s.j >= Len(SmChunk(s)) THEN SmLoopStep(s) ELSE [s EXCEPT !.j = s.j + 1]

upsert_players_row_ok ==
    /\ sm.pc = "rows"
    /\ LET n == SmChunk(sm)[sm.j]
           row == sm.upsertData[n]
           single_result == <<Representation(row)>>
       IN sm' = SmAfterRow([sm EXCEPT
                    !.rowTried[n] = @ + 1,
                    !.rowOk = @ \cup {n},
                    !.written = @ \cup {row.external_id},
                    !.allResults = @ \o single_result,
                    !.count = @ + Len(single_result)])
    /\ UNCHANGED OthersOfSm

upsert_players_row_raises ==
    /\ sm.pc = "rows"
    /\ LET n == SmChunk(sm)[sm.j]
       IN sm' = SmAfterRow([sm EXCEPT !.rowTried[n] = @ + 1,
                                      !.rowLogged = @ \cup {n}])
    /\ UNCHANGED OthersOfSm

SmInit ==
    \E ps \in PlayerInputs : \E T \in SUBSET TeamIds :
        sm = [SmIdle EXCEPT !.pc = "call", !.players = ps,
                            !.teamMap = TeamMapOf(T)]

SmNext ==
    \/ upsert_players_enter
    \/ upsert_players_teams_read
    \/ upsert_players_teams_unread
    \/ upsert_players_batch_ok
    \/ upsert_players_batch_raises
    \/ upsert_players_row_ok
    \/ upsert_players_row_raises

(***************************************************************************)
(* The chunked upsert loops together: one of them runs.                    *)
(***************************************************************************)
InitUpsert ==
    /\ \/ UpInit /\ sm = SmIdle
       \/ SmInit /\ up = UpIdle
    /\ pg = PgIdle /\ fd = FdIdle /\ rl = RlIdle /\ ca = CaIdle
    /\ us = UsIdle /\ ml = MlIdle
    /\ pp = PpIdle
    /\ tl = TlIdle
    /\ sl = SlIdle
    /\ ex = ExIdle
    /\ pu = PuIdle
    /\ rt = RtIdle
    /\ rr = RrIdle
    /\ nm = NmIdle
    /\ cs = CsIdle
    /\ er = ErIdle
    /\ cd = CdIdle
    /\ sb = SbIdle

NextUpsert == UpNext \/ SmNext

SpecUpsert == InitUpsert /\ [][NextUpsert]_vars

\* the values the loop variable of  range(0, n, ChunkSize)  takes
ChunkStarts(n) == {i \in 0..n : i < n /\ i % ChunkSize = 0}

\* the chunk a position of the chunked list falls in
StartOf(n) == ((n - 1) \div ChunkSize) * ChunkSize

(* C1: when sync_players_to_db (or the chunk loop of upsert_players) has   *)
(* returned, every chunk of the input that holds a row to write was        *)
(* attempted, whatever failed before it.                                   *)
C1_EveryBatchAttempted ==
    /\ (up.script = "sync_players_to_db" /\ up.pc = "done") =>
          \A i \in ChunkStarts(Len(up.todo)) :
              CleanBatch([up EXCEPT !.i = i]) # <<>> => i \in up.batchTried
    /\ sm.pc = "done" =>
          \A i \in ChunkStarts(Len(sm.upsertData)) : i \in sm.batchTried

(* C2: in sync_player_stats_to_db and in upsert_players, once the loop is  *)
(* past a chunk whose batched upsert failed, every row of that chunk was   *)
(* upserted on its own exactly once; no other row is upserted on its own;  *)
(* a failing row is logged and the rows after it are still tried; and the  *)
(* count is the rows of the successful chunks plus the rows whose own      *)
(* upsert succeeded (and, in sync_player_stats_to_db, is what is returned).*)
FallbackExact(todo, i, pc, batchTried, batchOk, rowTried, rowOk, rowLogged, count) ==
    /\ \A n \in 1..Len(todo) :
          LET k == todo[n]
              failed == StartOf(n) \in batchTried \ batchOk
              past == pc = "done" \/ StartOf(n) < i
          IN /\ rowTried[k] <= 1
             /\ (failed /\ past) => rowTried[k] = 1
             /\ rowTried[k] = 1 => failed
             /\ rowTried[k] = 1 <=> k \in rowOk \cup rowLogged
             /\ ~(k \in rowOk /\ k \in rowLogged)
    /\ count = Cardinality({n \in 1..Len(todo) : StartOf(n) \in batchOk})
               + Cardinality(rowOk)

C2_FallbackRowByRow ==
    /\ (up.script = "sync_player_stats_to_db" /\ up.pc \in {"batch", "rows", "done"}) =>
          /\ FallbackExact(up.todo, up.i, up.pc, up.batchTried, up.batchOk,
                           up.rowTried, up.rowOk, up.rowLogged, up.count)
          /\ up.pc = "done" => up.ret = up.count
    /\ sm.pc \in {"batch", "rows", "done"} =>
          FallbackExact(Iota(Len(sm.upsertData)), sm.i, sm.pc, sm.batchTried,
                        sm.batchOk, sm.rowTried, sm.rowOk, sm.rowLogged, sm.count)

\* a call has returned after one chunk succeeded and another failed, with a
\* row of the failed chunk written and a row of it refused
C2_Witness ==
    /\ up.script = "sync_player_stats_to_db" /\ up.pc = "done"
    /\ up.batchOk # {} /\ up.rowOk # {} /\ up.rowLogged # {}
    /\ \E k \in up.rowLogged : \E m \in up.rowOk : k < m

(***************************************************************************)
(* The paginated fetches NBADataSync.get_players (nba_data_sync.py) and    *)
(* NBADataSync.get_all_players (sync_nba_players_with_stats.py).           *)
(*                                                                         *)
(* The vendor holds the records 1..n and answers a request (limit, offset) *)
(* with the records offset+1 .. offset+limit that exist; a request may     *)
(* also fail (fetch_data returns None, fetch_players raises).              *)
(*   players   the list being built                                        *)
(*   requests  the page requests issued                                    *)
(*   pageLens  the length of every page received                           *)
(*   failed    a page request failed                                       *)
(***************************************************************************)
\* the vendor's answer to (limit, offset) over the records 1..n
ServerPage(n, limit, offset) ==
    [k \in 1..(IF offset >= n THEN 0 ELSE Min(limit, n - offset)) |-> offset + k]

\* a slip the loop could have: a full page ends the pagination too
get_players_page_full_breaks ==
    /\ pg.script = "get_players" /\ pg.pc = "page"
    /\ LET page == ServerPage(pg.n, pg.limit, pg.offset)
           got  == [pg EXCEPT !.requests = @ + 1,
                              !.pageLens = Append(@, Len(page))]
       IN pg' = IF page = <<>> THEN [got EXCEPT !.pc = "done"]
                ELSE [got EXCEPT !.players = @ \o page, !.pc = "done"]
    /\ UNCHANGED OthersOfPg

\* one pass of  while True  of get_players after fetch_data returned data:
\* an empty page breaks; a page is appended; a short page breaks; else the
\* offset moves on by limit
get_players_page ==
    /\ pg.script = "get_players" /\ pg.pc = "page"
    /\ LET page == ServerPage(pg.n, pg.limit, pg.offset)
           got  == [pg EXCEPT !.requests = @ + 1,
                              !.pageLens = Append(@, Len(page))]
       IN pg' = IF page = <<>> THEN [got EXCEPT !.pc = "done"]
                ELSE IF Len(page) < pg.limit
                THEN [got EXCEPT !.players = @ \o page, !.pc = "done"]
                ELSE [got EXCEPT !.players = @ \o page,
                                 !.offset = @ + pg.limit]
    /\ UNCHANGED OthersOfPg

\* a slip the loop could have: a failed page is skipped and the next one asked
get_players_page_fails_skips ==
    /\ pg.script = "get_players" /\ pg.pc = "page"
    /\ pg' = [pg EXCEPT !.requests = @ + 1, !.failed = TRUE,
                        !.offset = @ + pg.limit]
    /\ UNCHANGED OthersOfPg

\* fetch_data returned None:  if not data ...: break
get_players_page_fails ==
    /\ pg.script = "get_players" /\ pg.pc = "page"
    /\ pg' = [pg EXCEPT !.requests = @ + 1, !.failed = TRUE, !.pc = "done"]
    /\ UNCHANGED OthersOfPg

\* the same pass in get_all_players (which then sleeps 1 s)
get_all_players_page ==
    /\ pg.script = "get_all_players" /\ pg.pc = "page"
    /\ LET page == ServerPage(pg.n, pg.limit, pg.offset)
           got  == [pg EXCEPT !.requests = @ + 1,
                              !.pageLens = Append(@, Len(page))]
       IN pg' = IF page = <<>> THEN [got EXCEPT !.pc = "done"]
                ELSE IF Len(page) < pg.limit
                THEN [got EXCEPT !.players = @ \o page, !.pc = "done"]
                ELSE [got EXCEPT !.players = @ \o page,
                                 !.offset = @ + pg.limit]
    /\ UNCHANGED OthersOfPg

\* fetch_players raised:  except Exception: log; break
get_all_players_page_raises ==
    /\ pg.script = "get_all_players" /\ pg.pc = "page"
    /\ pg' = [pg EXCEPT !.requests = @ + 1, !.failed = TRUE, !.pc = "done"]
    /\ UNCHANGED OthersOfPg

InitPages ==
    /\ \E s \in {"get_players", "get_all_players"} :
         \E n \in 0..MaxData : \E l \in 1..MaxLimit :
            pg = [PgIdle EXCEPT !.script = s, !.pc = "page", !.n = n, !.limit = l]
    /\ up = UpIdle /\ sm = SmIdle /\ fd = FdIdle /\ rl = RlIdle /\ ca = CaIdle
    /\ us = UsIdle /\ ml = MlIdle
    /\ pp = PpIdle
    /\ tl = TlIdle
    /\ sl = SlIdle
    /\ ex = ExIdle
    /\ pu = PuIdle
    /\ rt = RtIdle
    /\ rr = RrIdle
    /\ nm = NmIdle
    /\ cs = CsIdle
    /\ er = ErIdle
    /\ cd = CdIdle
    /\ sb = SbIdle

NextPages ==
    \/ get_players_page
    \/ get_players_page_fails
    \/ get_all_players_page
    \/ get_all_players_page_raises

SpecPages == InitPages /\ [][NextPages]_vars

CeilDiv(a, b) == (a + b - 1) \div b

(* C3 as stated: against a vendor that answers every request, the          *)
(* paginated fetch returns exactly the n records and has issued exactly    *)
(* ceil(n / limit) page requests.                                          *)
C3_CeilRequests ==
    (pg.pc = "done" /\ ~pg.failed) =>
        /\ pg.players = Iota(pg.n)
        /\ pg.requests = CeilDiv(pg.n, pg.limit)

(* C3 amended: against a vendor that answers every request, the paginated  *)
(* fetch returns exactly the n records, in order, and has issued exactly   *)
(* floor(n / limit) + 1 page requests: every page but the last is full and *)
(* the last one is short (possibly empty).                                 *)
C3_FloorPlusOneRequests ==
    (pg.pc = "done" /\ ~pg.failed) =>
        /\ pg.players = Iota(pg.n)
        /\ pg.requests = (pg.n \div pg.limit) + 1
        /\ Len(pg.pageLens) = pg.requests
        /\ \A r \in 1..Len(pg.pageLens) :
              IF r < Len(pg.pageLens) THEN pg.pageLens[r] = pg.limit
                                      ELSE pg.pageLens[r] < pg.limit

\* a fetch over a dataset of several full pages and nothing more has ended
C3_Witness ==
    /\ pg.pc = "done" /\ ~pg.failed
    /\ pg.n > pg.limit /\ pg.limit > 1 /\ pg.n % pg.limit = 0
    /\ pg.players = Iota(pg.n)

(***************************************************************************)
(* NBADataSync.fetch_data (nba_data_sync.py): one call from a caller, with *)
(* the calls it makes to itself to retry.                                  *)
(*                                                                         *)
(* Each request is answered by the environment with one of Responses.      *)
(*   retry_count  the parameter of the call in progress                    *)
(*   requests     the requests issued (client.get)                         *)
(*   delays       the delays slept before each retry                       *)
(*   errors       the increments of self.total_errors                      *)
(*   last         the answer to the last request                           *)
(*   result       "pending", then "json" (the parsed body) or "None"       *)
(*   pc           "request", "done", or "raised" if an exception left the  *)
(*                call                                                     *)
(***************************************************************************)
MAX_RETRIES == 5
INITIAL_RETRY_DELAY == 2
MAX_RETRY_DELAY == 30

RECURSIVE Pow2(_)
Pow2(n) == IF n = 0 THEN 1 ELSE 2 * Pow2(n - 1)

\* what a request can come to: a body that parses, HTTP 429, another error
\* status, a transport error, a body that is not JSON, any other exception
Responses == {"success", "429", "http_error", "network_error",
              "malformed_json", "other_exception"}

\* the exception raise_for_status, client.get or response.json raises
Raised(response) ==
    CASE response \in {"429", "http_error"} -> "HTTPStatusError"
      [] response = "network_error" -> "RequestError"
      [] response = "malformed_json" -> "JSONDecodeError"
      [] response = "other_exception" -> "Exception"
      [] OTHER -> "nothing"

\* the except clause that catches it, in the order they are written
Handler(exc) ==
    CASE exc = "HTTPStatusError" -> "http"
      [] exc \in {"RequestError", "JSONDecodeError"} -> "request"
      [] exc = "Exception" -> "any"
      [] OTHER -> "uncaught"

\* a slip the backoff could have: the cap is left out
BackoffUncapped(retry_count, jitter) ==
    INITIAL_RETRY_DELAY * Pow2(retry_count) * JitterSteps + jitter

\* min(INITIAL_RETRY_DELAY * 2 ** retry_count + random.uniform(0, 1),
\*     MAX_RETRY_DELAY)
BackoffWithJitter(retry_count, jitter) ==
    Min(INITIAL_RETRY_DELAY * Pow2(retry_count) * JitterSteps + jitter,
        MAX_RETRY_DELAY * JitterSteps)

\* min(INITIAL_RETRY_DELAY * 2 ** retry_count, MAX_RETRY_DELAY)
Backoff(retry_count) ==
    Min(INITIAL_RETRY_DELAY * Pow2(retry_count) * JitterSteps,
        MAX_RETRY_DELAY * JitterSteps)

\* a slip the retry guard could have: one retry too many
MayRetryOnceMore(retry_count) == retry_count <= MAX_RETRIES

\* if retry_count < MAX_RETRIES
MayRetry(retry_count) == retry_count < MAX_RETRIES

\* await asyncio.sleep(backoff); return await self.fetch_data(endpoint,
\* params, retry_count + 1)
Retry(f, delay) ==
    [f EXCEPT !.delays = Append(@, delay), !.retry_count = @ + 1]

ReturnNone(f) == [f EXCEPT !.pc = "done", !.result = "None"]

\* the body of fetch_data for one request and the answer to it
fetch_data(f, response, jitter) ==
    LET g == [f EXCEPT !.requests = @ + 1, !.last = response]
        e == [g EXCEPT !.errors = @ + 1]
    IN IF Raised(response) = "nothing"
       THEN [g EXCEPT !.pc = "done", !.result = "json"]
       ELSE CASE Handler(Raised(response)) = "http" ->
                    IF response = "429" /\ MayRetry(f.retry_count)
                    THEN Retry(e, BackoffWithJitter(f.retry_count, jitter))
                    ELSE ReturnNone(e)
              [] Handler(Raised(response)) = "request" ->
                    IF MayRetry(f.retry_count)
                    THEN Retry(e, Backoff(f.retry_count))
                    ELSE ReturnNone(e)
              [] Handler(Raised(response)) = "any" -> ReturnNone(e)
              [] OTHER -> [g EXCEPT !.pc = "raised"]

fetch_data_success ==
    /\ fd.pc = "request"
    /\ fd' = fetch_data(fd, "success", 0)
    /\ UNCHANGED OthersOfFd

fetch_data_rate_limited ==
    /\ fd.pc = "request"
    /\ \E jitter \in 0..(JitterSteps - 1) : fd' = fetch_data(fd, "429", jitter)
    /\ UNCHANGED OthersOfFd

fetch_data_http_error ==
    /\ fd.pc = "request"
    /\ fd' = fetch_data(fd, "http_error", 0)
    /\ UNCHANGED OthersOfFd

fetch_data_network_error ==
    /\ fd.pc = "request"
    /\ fd' = fetch_data(fd, "network_error", 0)
    /\ UNCHANGED OthersOfFd

fetch_data_malformed_json ==
    /\ fd.pc = "request"
    /\ fd' = fetch_data(fd, "malformed_json", 0)
    /\ UNCHANGED OthersOfFd

fetch_data_other_exception ==
    /\ fd.pc = "request"
    /\ fd' = fetch_data(fd, "other_exception", 0)
    /\ UNCHANGED OthersOfFd

InitFetch ==
    /\ fd = [FdIdle EXCEPT !.pc = "request"]
    /\ up = UpIdle /\ sm = SmIdle /\ pg = PgIdle /\ rl = RlIdle /\ ca = CaIdle
    /\ us = UsIdle /\ ml = MlIdle
    /\ pp = PpIdle
    /\ tl = TlIdle
    /\ sl = SlIdle
    /\ ex = ExIdle
    /\ pu = PuIdle
    /\ rt = RtIdle
    /\ rr = RrIdle
    /\ nm = NmIdle
    /\ cs = CsIdle
    /\ er = ErIdle
    /\ cd = CdIdle
    /\ sb = SbIdle

NextFetch ==
    \/ fetch_data_success
    \/ fetch_data_rate_limited
    \/ fetch_data_http_error
    \/ fetch_data_network_error
    \/ fetch_data_malformed_json
    \/ fetch_data_other_exception

SpecFetch == InitFetch /\ [][NextFetch]_vars

(* C4: whatever the server answers, fetch_data issues at most              *)
(* MAX_RETRIES + 1 requests, no exception leaves it, and it returns the    *)
(* parsed JSON exactly when the last request succeeded and None otherwise, *)
(* in particular once MAX_RETRIES retries are used up.                     *)
C4_BoundedAndNeverRaises ==
    /\ fd.requests <= MAX_RETRIES + 1
    /\ fd.pc # "raised"
    /\ fd.pc = "request" => fd.requests = fd.retry_count /\ fd.requests <= MAX_RETRIES
    /\ fd.pc = "done" =>
          /\ fd.result \in {"json", "None"}
          /\ fd.result = "json" <=> fd.last = "success"
          /\ (fd.requests = MAX_RETRIES + 1 /\ fd.last # "success") => fd.result = "None"

\* the call has returned None after the last allowed retry was rate limited
C4_Witness ==
    /\ fd.pc = "done" /\ fd.result = "None"
    /\ fd.requests = MAX_RETRIES + 1 /\ fd.last = "429"

(* C6: the delays fetch_data sleeps before its successive retries never    *)
(* decrease, whatever jitter is drawn, and none exceeds MAX_RETRY_DELAY.   *)
C6_BackoffMonotoneAndCapped ==
    /\ \A k \in 1..Len(fd.delays) : fd.delays[k] <= MAX_RETRY_DELAY * JitterSteps
    /\ \A k \in 1..(Len(fd.delays) - 1) : fd.delays[k] <= fd.delays[k + 1]

\* every retry was used after 429 answers, the last delay is the cap, and an
\* earlier one carries jitter
C6_Witness ==
    /\ Len(fd.delays) = MAX_RETRIES
    /\ fd.errors = MAX_RETRIES /\ fd.last = "429"
    /\ fd.delays[MAX_RETRIES] = MAX_RETRY_DELAY * JitterSteps
    /\ fd.delays[1] > INITIAL_RETRY_DELAY * JitterSteps

(***************************************************************************)
(* The fetch loops NBATeamStatsFetcher.fetch_team_stats                    *)
(* (fetch_team_stats.py) and make_api_request (ingest_teams.py).           *)
(*                                                                         *)
(*   mode         "always429": the server answers 429 to every request;    *)
(*                "any": it answers as it pleases                          *)
(*   pc           "request", "sleeping" (in the sleep that follows a 429), *)
(*                "done" (the function has returned)                       *)
(*   rateLimited  the 429 answers received, counted up to AttemptsShown    *)
(*   slept        the seconds of the sleep in progress                     *)
(*   n, limit, offset, all_stats   the pagination of fetch_team_stats      *)
(***************************************************************************)
\* int(response.headers.get('Retry-After', 5)): the default, or the header
RetryAfterValues == {5, 1}

\* time.sleep(60)
RATE_LIMIT_WAIT == 60

CountUpTo(c) == Min(c + 1, AttemptsShown)

\* if response.status == 429: sleep(retry_after); continue
fetch_team_stats_rate_limited ==
    /\ rl.script = "fetch_team_stats" /\ rl.pc = "request"
    /\ \E retry_after \in RetryAfterValues :
          rl' = [rl EXCEPT !.pc = "sleeping", !.slept = retry_after,
                           !.rateLimited = CountUpTo(@)]
    /\ UNCHANGED OthersOfRl

\* the sleep is over: the while loop goes round with the same offset
fetch_team_stats_retry ==
    /\ rl.script = "fetch_team_stats" /\ rl.pc = "sleeping"
    /\ rl' = [rl EXCEPT !.pc = "request", !.slept = 0]
    /\ UNCHANGED OthersOfRl

\* a page arrives: an empty one breaks, a short one is kept and breaks, a
\* full one is kept and the offset moves on by its length
fetch_team_stats_page ==
    /\ rl.script = "fetch_team_stats" /\ rl.pc = "request" /\ rl.mode = "any"
    /\ LET batch == ServerPage(rl.n, rl.limit, rl.offset)
       IN rl' = IF batch = <<>>
                THEN [rl EXCEPT !.pc = "done", !.result = "list"]
                ELSE IF Len(batch) < rl.limit
                THEN [rl EXCEPT !.all_stats = @ \o batch, !.pc = "done",
                                !.result = "list"]
                ELSE [rl EXCEPT !.all_stats = @ \o batch,
                                !.offset = @ + Len(batch)]
    /\ UNCHANGED OthersOfRl

\* raise_for_status or the transport raises aiohttp.ClientError: break
fetch_team_stats_client_error ==
    /\ rl.script = "fetch_team_stats" /\ rl.pc = "request" /\ rl.mode = "any"
    /\ rl' = [rl EXCEPT !.pc = "done", !.result = "list"]
    /\ UNCHANGED OthersOfRl

\* status 200: return response.json()
make_api_request_ok ==
    /\ rl.script = "make_api_request" /\ rl.pc = "request" /\ rl.mode = "any"
    /\ rl' = [rl EXCEPT !.pc = "done", !.result = "json"]
    /\ UNCHANGED OthersOfRl

\* status 429: time.sleep(60); continue
make_api_request_rate_limited ==
    /\ rl.script = "make_api_request" /\ rl.pc = "request"
    /\ rl' = [rl EXCEPT !.pc = "sleeping", !.slept = RATE_LIMIT_WAIT,
                        !.rateLimited = CountUpTo(@)]
    /\ UNCHANGED OthersOfRl

make_api_request_retry ==
    /\ rl.script = "make_api_request" /\ rl.pc = "sleeping"
    /\ rl' = [rl EXCEPT !.pc = "request", !.slept = 0]
    /\ UNCHANGED OthersOfRl

\* any other status, or requests.get raises: return None
make_api_request_error ==
    /\ rl.script = "make_api_request" /\ rl.pc = "request" /\ rl.mode = "any"
    /\ rl' = [rl EXCEPT !.pc = "done", !.result = "None"]
    /\ UNCHANGED OthersOfRl

InitRetry ==
    /\ \E m \in {"always429", "any"} :
          \/ \E n \in 0..MaxData : \E l \in 1..MaxLimit :
                rl = [RlIdle EXCEPT !.script = "fetch_team_stats",
                                    !.pc = "request", !.mode = m,
                                    !.n = n, !.limit = l]
          \/ rl = [RlIdle EXCEPT !.script = "make_api_request",
                                 !.pc = "request", !.mode = m]
    /\ up = UpIdle /\ sm = SmIdle /\ pg = PgIdle /\ fd = FdIdle /\ ca = CaIdle
    /\ us = UsIdle /\ ml = MlIdle
    /\ pp = PpIdle
    /\ tl = TlIdle
    /\ sl = SlIdle
    /\ ex = ExIdle
    /\ pu = PuIdle
    /\ rt = RtIdle
    /\ rr = RrIdle
    /\ nm = NmIdle
    /\ cs = CsIdle
    /\ er = ErIdle
    /\ cd = CdIdle
    /\ sb = SbIdle

NextRetry ==
    \/ fetch_team_stats_rate_limited
    \/ fetch_team_stats_retry
    \/ fetch_team_stats_page
    \/ fetch_team_stats_client_error
    \/ make_api_request_ok
    \/ make_api_request_rate_limited
    \/ make_api_request_retry
    \/ make_api_request_error

\* the loops are straight-line code in one thread: a step that can be taken
\* is taken
SpecRetry == InitRetry /\ [][NextRetry]_vars /\ WF_vars(NextRetry)

(* C5: against a server that answers 429 to every request, each fetch loop *)
(* gives up after a maximum number of retries: it terminates.              *)
C5_RateLimitedLoopTerminates ==
    rl.mode = "always429" => <>(rl.pc = "done")

(***************************************************************************)
(* SportsDataFetcher.get_league_id and get_team_id (fetch_mlb_games.py).   *)
(*                                                                         *)
(* The script reads the tables teams and leagues and never writes them.    *)
(* A cache is a Python dict: its keys are written "int:<n>" for an integer *)
(* and "str:<s>" for a string, which are different keys.                   *)
(*   teams, leagues   the rows of the two tables                           *)
(*   team_cache, league_cache   the two dicts                              *)
(*   teamReads, leagueReads     the bulk reads issued to each table        *)
(*   calls            the calls made so far                                *)
(*   returned         what the last call returned                          *)
(***************************************************************************)
LeagueIds == {1, 2}

LeagueRowId(l) == 20 + l

IntKey(n) == "int:" \o ToString(n)

StrKey(x) == "str:" \o x

\* the rows the teams table can hold: one with an abbreviation, one without
TeamRows ==
    { [external_id |-> 1, id |-> ToString(TeamRowId(1)), abbreviation |-> "NYY"],
      [external_id |-> 2, id |-> ToString(TeamRowId(2)), abbreviation |-> ""] }

LeagueRows ==
    { [external_id |-> l, id |-> ToString(LeagueRowId(l))] : l \in LeagueIds }

\* for item in result.data: team_cache[item["external_id"]] = item["id"],
\* and team_cache[item["abbreviation"]] = item["id"] when there is one
TeamCacheOf(rows) ==
    LET keys == {IntKey(r.external_id) : r \in rows}
                \cup {StrKey(r.abbreviation) : r \in {q \in rows : q.abbreviation # ""}}
    IN [k \in keys |->
           (CHOOSE r \in rows :
                k = IntKey(r.external_id) \/ k = StrKey(r.abbreviation)).id]

\* {item["external_id"]: item["id"] for item in result.data}
LeagueCacheOf(rows) ==
    [k \in {IntKey(r.external_id) : r \in rows} |->
        (CHOOSE r \in rows : k = IntKey(r.external_id)).id]

\* dict.get
Get(cache, key) == IF key \in DOMAIN cache THEN cache[key] ELSE "None"

\* if not self.team_cache
NeedsTeamRead(c) == c.team_cache = <<>>

\* if not self.league_cache
NeedsLeagueRead(c) == c.league_cache = <<>>

\* the arguments get_team_id is called with (HomeTeamID, AwayTeamID, and the
\* abbreviations HomeTeam, AwayTeam): the dict key of the argument and of
\* str(argument); "" stands for a missing (falsy) argument
TeamArgs ==
    {[key |-> "", str |-> ""]}
    \cup {[key |-> IntKey(t), str |-> StrKey(ToString(t))] : t \in TeamIds}
    \cup {[key |-> StrKey(a), str |-> StrKey(a)] : a \in {"NYY", "BOS"}}

get_team_id ==
    /\ ca.pc = "run" /\ ca.calls < MaxCalls
    /\ \E external_id \in TeamArgs :
          IF external_id.key = ""
          THEN ca' = [ca EXCEPT !.calls = @ + 1, !.returned = "None"]
          ELSE LET read  == NeedsTeamRead(ca)
                   cache == IF read /\ ca.teams # {} THEN TeamCacheOf(ca.teams)
                            ELSE ca.team_cache
                   hit   == Get(cache, external_id.key)
               IN ca' = [ca EXCEPT
                            !.calls = @ + 1,
                            !.teamReads = IF read THEN @ + 1 ELSE @,
                            !.team_cache = cache,
                            !.returned = IF hit # "None" THEN hit
                                         ELSE Get(cache, external_id.str)]
    /\ UNCHANGED OthersOfCa

\* get_league_id(external_id)
get_league_id ==
    /\ ca.pc = "run" /\ ca.calls < MaxCalls
    /\ \E external_id \in LeagueIds :
          LET read  == NeedsLeagueRead(ca)
              cache == IF read /\ ca.leagues # {} THEN LeagueCacheOf(ca.leagues)
                       ELSE ca.league_cache
          IN ca' = [ca EXCEPT
                       !.calls = @ + 1,
                       !.leagueReads = IF read THEN @ + 1 ELSE @,
                       !.league_cache = cache,
                       !.returned = Get(cache, IntKey(external_id))]
    /\ UNCHANGED OthersOfCa

InitCache ==
    /\ \E T \in SUBSET TeamRows : \E L \in SUBSET LeagueRows :
          ca = [CaIdle EXCEPT !.pc = "run", !.teams = T, !.leagues = L]
    /\ up = UpIdle /\ sm = SmIdle /\ pg = PgIdle /\ fd = FdIdle /\ rl = RlIdle
    /\ us = UsIdle /\ ml = MlIdle
    /\ pp = PpIdle
    /\ tl = TlIdle
    /\ sl = SlIdle
    /\ ex = ExIdle
    /\ pu = PuIdle
    /\ rt = RtIdle
    /\ rr = RrIdle
    /\ nm = NmIdle
    /\ cs = CsIdle
    /\ er = ErIdle
    /\ cd = CdIdle
    /\ sb = SbIdle

NextCache == get_team_id \/ get_league_id

SpecCache == InitCache /\ [][NextCache]_vars

(* C9: in one run, whatever the tables hold, the bulk read that fills a    *)
(* cache is issued at most once per cache.                                 *)
C9_BulkReadAtMostOnce ==
    ca.teamReads <= 1 /\ ca.leagueReads <= 1

(***************************************************************************)
(* upsert_data_to_supabase (fetch_mlb_data.py).                            *)
(*                                                                         *)
(* A row handed to the function is [ek, ext, key, val]: ek is "value" when *)
(* the dict has an external_id that is not None (ext is that value),       *)
(* "None" when the key is there with the value None, "absent" when the     *)
(* dict has no such key; key holds (player_id, team_id) of a stats row;    *)
(* val stands for the remaining columns.  The chunks of the function only  *)
(* group the rows of one loop over all of them, in order.                  *)
(*   table, data   the arguments of the two calls                          *)
(*   unique        whether the table refuses a second row with the same    *)
(*                 conflict columns (the schema is outside the script)     *)
(*   store         the destination tables                                  *)
(*   once          the destination tables after the first call             *)
(*   result        what the last call returned                             *)
(***************************************************************************)
Tables == {"teams", "players", "player_season_stats", "games"}

\* 'external_id' in row and row['external_id'] is not None
HasExternalId(row) == row.ek = "value"

\* select('*').eq('external_id', row['external_id']): the positions of the
\* rows it returns
Matching(st, table, row) ==
    {k \in DOMAIN st[table] :
        st[table][k].ek = "value" /\ st[table][k].ext = row.ext}

\* update(update_data).eq('external_id', ...): every matching row takes the
\* columns of row other than external_id
UpdateRows(st, table, row) ==
    LET t == st[table]
    IN [st EXCEPT ![table] =
           [k \in DOMAIN t |->
               IF k \in Matching(st, table, row)
               THEN [t[k] EXCEPT !.key = row.key, !.val = row.val]
               ELSE t[k]]]

\* insert(row): the store gives the new row the next internal id
InsertRow(st, table, row) ==
    [st EXCEPT ![table] = Append(@, [id |-> st.nextId, ek |-> row.ek,
                                     ext |-> row.ext, key |-> row.key,
                                     val |-> row.val]),
               !.nextId = @ + 1]

\* insert(row).execute() raises: the table has a unique constraint and holds
\* a row with the conflict columns of this one
InsertRaises(st, table, row, unique) ==
    /\ unique
    /\ \E k \in DOMAIN st[table] :
          IF table = "player_season_stats"
          THEN st[table][k].key = row.key
          ELSE /\ HasExternalId(row)
               /\ st[table][k].ek = "value"
               /\ st[table][k].ext = row.ext

\* for row in chunk, from the k-th row on; an exception is logged and the
\* loop goes on with the next row
RECURSIVE UpsertFrom(_, _, _, _, _, _)
UpsertFrom(st, table, data, k, all_processed_data, unique) ==
    IF k > Len(data)
    THEN [store |-> st, result |-> all_processed_data]
    ELSE LET row == data[k]
         IN IF HasExternalId(row) /\ Matching(st, table, row) # {}
            THEN LET u == UpdateRows(st, table, row)
                     updated == SelectSeq(u[table],
                                   LAMBDA r : r.ek = "value" /\ r.ext = row.ext)
                 IN UpsertFrom(u, table, data, k + 1,
                               all_processed_data \o updated, unique)
            ELSE IF InsertRaises(st, table, row, unique)
            THEN UpsertFrom(st, table, data, k + 1, all_processed_data, unique)
            ELSE LET n == InsertRow(st, table, row)
                     inserted == <<n[table][Len(n[table])]>>
                 IN UpsertFrom(n, table, data, k + 1,
                               all_processed_data \o inserted, unique)

upsert_data_to_supabase(st, table, data, unique) ==
    UpsertFrom(st, table, data, 1, <<>>, unique)

ExternalIds == {1, 2}

FieldValues == {"a", "b"}

\* the rows the prepare_*_for_db functions build for a table: a stats row
\* has no external_id key, the others have one that may be None
RowsOf(table) ==
    IF table = "player_season_stats"
    THEN {[ek |-> "absent", ext |-> 0, key |-> <<p, "11">>, val |-> v] :
             p \in {"101", "102"}, v \in FieldValues}
    ELSE {[ek |-> "value", ext |-> x, key |-> <<>>, val |-> v] :
             x \in ExternalIds, v \in FieldValues}
         \cup {[ek |-> "None", ext |-> 0, key |-> <<>>, val |-> v] :
                  v \in FieldValues}

DataOf(table) == UNION {[1..n -> RowsOf(table)] : n \in 0..MaxUpsertRows}

\* what the table holds before the two calls: nothing, or one row written
\* by an earlier run
SeedsOf(table) == {<<>>} \cup {<<r>> : r \in RowsOf(table)}

upsert_data_to_supabase_once ==
    /\ us.pc = "first"
    /\ LET r == upsert_data_to_supabase(us.store, us.table, us.data, us.unique)
       IN us' = [us EXCEPT !.pc = "second", !.store = r.store,
                           !.once = r.store, !.result = r.result]
    /\ UNCHANGED OthersOfUs

upsert_data_to_supabase_again ==
    /\ us.pc = "second"
    /\ LET r == upsert_data_to_supabase(us.store, us.table, us.data, us.unique)
       IN us' = [us EXCEPT !.pc = "done", !.store = r.store,
                           !.result = r.result]
    /\ UNCHANGED OthersOfUs

InitTwice ==
    /\ \E table \in Tables : \E data \in DataOf(table) :
       \E seed \in SeedsOf(table) : \E unique \in BOOLEAN :
          us = [UsIdle EXCEPT
                   !.pc = "first", !.table = table, !.data = data,
                   !.unique = unique,
                   !.store = upsert_data_to_supabase(EmptyStore, table, seed,
                                                     unique).store]
    /\ up = UpIdle /\ sm = SmIdle /\ pg = PgIdle /\ fd = FdIdle /\ rl = RlIdle
    /\ ca = CaIdle /\ ml = MlIdle
    /\ pp = PpIdle
    /\ tl = TlIdle
    /\ sl = SlIdle
    /\ ex = ExIdle
    /\ pu = PuIdle
    /\ rt = RtIdle
    /\ rr = RrIdle
    /\ nm = NmIdle
    /\ cs = CsIdle
    /\ er = ErIdle
    /\ cd = CdIdle
    /\ sb = SbIdle

NextTwice == upsert_data_to_supabase_once \/ upsert_data_to_supabase_again

SpecTwice == InitTwice /\ [][NextTwice]_vars

\* the row carries the columns its table resolves conflicts on
CarriesConflictKey(table, row) ==
    table = "player_season_stats" \/ HasExternalId(row)

(* C7: when every row carries the conflict columns of its table, the       *)
(* second of two calls of upsert_data_to_supabase with the same rows       *)
(* leaves the table as the first call left it, for each of the four        *)
(* tables: no row is added and no value changes.                           *)
C7_SecondCallChangesNothing ==
    (/\ us.pc = "done"
     /\ \A k \in DOMAIN us.data : CarriesConflictKey(us.table, us.data[k]))
    => us.store[us.table] = us.once[us.table]

(***************************************************************************)
(* main of fetch_mlb_data.py: one run.                                     *)
(*                                                                         *)
(* The vendor's answers are fixed when the run starts.  A TeamID, PlayerID *)
(* or GameID of 0 stands for a record without that field; an internal id   *)
(* of 0 stands for None.  An endpoint that fails answers None, which the   *)
(* script treats as it treats an empty list.                               *)
(*   teams, rosters   AllTeams (the TeamID of each team) and, per team,    *)
(*                    the PlayerIDs of its roster                          *)
(*   player_stats, games   the two season endpoints                        *)
(*   selectRaises     the TeamIDs whose id select raises                   *)
(*   team_key_to_id, player_key_to_id, all_player_data, stats_data,        *)
(*   game_data        the locals of main                                   *)
(*   skippedRosters   the teams whose roster was skipped for want of a     *)
(*                    Supabase id                                          *)
(*   playersResult    the rows the player upserts returned                 *)
(***************************************************************************)
\* dict.get on a map to internal ids
Lookup(map, key) == IF key \in DOMAIN map THEN map[key] ELSE 0

\* map[key] = value
Put(map, key, value) ==
    [x \in DOMAIN map \cup {key} |-> IF x = key THEN value ELSE map[x]]

TeamLists == UNION {[1..n -> TeamIds \cup {0}] : n \in 0..MaxTeams}

RosterOptions == {<<>>, <<1, 2>>, <<0, 1>>}

StatsOptions ==
    { <<>>,
      <<[PlayerID |-> 1, TeamID |-> 1], [PlayerID |-> 2, TeamID |-> 2]>>,
      <<[PlayerID |-> 1, TeamID |-> 1], [PlayerID |-> 3, TeamID |-> 1]>> }

\* a game carries HomeTeamRuns once it is played; before, the field is null
GamesOptions ==
    { <<>>,
      <<[GameID |-> 1, HomeTeamID |-> 1, AwayTeamID |-> 2,
         HomeTeamRuns |-> "7"]>>,
      <<[GameID |-> 1, HomeTeamID |-> 1, AwayTeamID |-> 2,
         HomeTeamRuns |-> Null]>>,
      <<[GameID |-> 1, HomeTeamID |-> 1, AwayTeamID |-> 0,
         HomeTeamRuns |-> "7"]>> }

\* .get(field) of a vendor record, as an external_id column
ExternalIdOf(n) == IF n = 0 THEN "None" ELSE "value"

prepare_team_for_db(TeamID, league_id) ==
    [ek |-> ExternalIdOf(TeamID), ext |-> TeamID, key |-> <<>>,
     val |-> league_id]

prepare_player_for_db(PlayerID, team_supabase_id) ==
    [ek |-> ExternalIdOf(PlayerID), ext |-> PlayerID, key |-> <<>>,
     val |-> team_supabase_id]

prepare_player_season_stats_for_db(player_supabase_id, team_supabase_id) ==
    [ek |-> "absent", ext |-> 0,
     key |-> <<player_supabase_id, team_supabase_id>>, val |-> 0]

\* every key is put in the row, with None for what the vendor left out
prepare_game_for_db(game, home_team_supabase_id, away_team_supabase_id) ==
    [ek |-> ExternalIdOf(game.GameID), ext |-> game.GameID, key |-> <<>>,
     val |-> [home_team_id |-> home_team_supabase_id,
              away_team_id |-> away_team_supabase_id,
              home_score |-> game.HomeTeamRuns]]

\* for team in teams: if team_id: select id by external_id; the first row
\* returned gives the id, an exception is logged
RECURSIVE TeamKeyToId(_, _, _, _)
TeamKeyToId(st, teams, raises, k) ==
    IF k = 0 THEN <<>>
    ELSE LET map  == TeamKeyToId(st, teams, raises, k - 1)
             team_id == teams[k]
             data == SelectSeq(st.teams,
                        LAMBDA r : r.ek = "value" /\ r.ext = team_id)
         IN IF team_id # 0 /\ team_id \notin raises /\ data # <<>>
            THEN Put(map, ToString(team_id), data[1].id)
            ELSE map

\* for player in result: if external_id and id: player_key_to_id[...] = id
RECURSIVE UpdateKeyToId(_, _, _)
UpdateKeyToId(map, result, k) ==
    IF k = 0 THEN map
    ELSE LET m == UpdateKeyToId(map, result, k - 1)
             player == result[k]
         IN IF player.ek = "value" /\ player.ext # 0 /\ player.id # 0
            THEN Put(m, ToString(player.ext), player.id)
            ELSE m

\* the chunk length of the three upsert loops of main
PLAYER_CHUNK == 100

\* for i in range(0, len(data), PLAYER_CHUNK): upsert the chunk; acc gathers
\* what the upserts returned, in order
RECURSIVE UpsertChunks(_, _, _, _, _, _)
UpsertChunks(st, table, data, i, acc, unique) ==
    IF i >= Len(data) THEN [store |-> st, result |-> acc]
    ELSE LET chunk == Slice(data, i, PLAYER_CHUNK)
             r == upsert_data_to_supabase(st, table, chunk, unique)
         IN UpsertChunks(r.store, table, data, i + PLAYER_CHUNK,
                         acc \o r.result, unique)

\* get_or_create_league returns an id
main_league ==
    /\ ml.pc = "league"
    /\ ml' = [ml EXCEPT !.pc = "teams", !.league_id = 1]
    /\ UNCHANGED OthersOfMl

\* it returns None: main returns
main_league_fails ==
    /\ ml.pc = "league"
    /\ ml' = [ml EXCEPT !.pc = "done"]
    /\ UNCHANGED OthersOfMl

\* teams = await client.get_all_teams(); if not teams: return
main_get_all_teams ==
    /\ ml.pc = "teams"
    /\ ml' = [ml EXCEPT !.pc = IF ml.teams = <<>> THEN "done"
                                ELSE "upsert_teams"]
    /\ UNCHANGED OthersOfMl

\* the teams are upserted, then team_key_to_id is read back team by team
main_upsert_teams ==
    /\ ml.pc = "upsert_teams"
    /\ LET team_data == [k \in DOMAIN ml.teams |->
                            prepare_team_for_db(ml.teams[k], ml.league_id)]
           r == upsert_data_to_supabase(ml.store, "teams", team_data,
                                        ml.unique)
       IN ml' = [ml EXCEPT
                    !.pc = "rosters",
                    !.store = r.store,
                    !.team_key_to_id =
                        TeamKeyToId(r.store, ml.teams, ml.selectRaises,
                                    Len(ml.teams))]
    /\ UNCHANGED OthersOfMl

\* the team's Supabase id, None when the map does not have it
TeamSupabaseId(m, k) == Lookup(m.team_key_to_id, ToString(m.teams[k]))

\* the rows of the roster of the k-th team
RosterRows(m, k) ==
    [n \in DOMAIN m.rosters[k] |->
        prepare_player_for_db(m.rosters[k][n], TeamSupabaseId(m, k))]

\* the roster loop over the first k teams: a team without a Supabase id is
\* skipped with a warning, and so is one without a roster
RECURSIVE AllPlayerData(_, _)
AllPlayerData(m, k) ==
    IF k = 0 THEN <<>>
    ELSE AllPlayerData(m, k - 1)
         \o (IF TeamSupabaseId(m, k) = 0 THEN <<>> ELSE RosterRows(m, k))

main_rosters ==
    /\ ml.pc = "rosters"
    /\ ml' = [ml EXCEPT
                 !.pc = "upsert_players",
                 !.rostersDone = TRUE,
                 !.skippedRosters = {k \in DOMAIN ml.teams :
                                        TeamSupabaseId(ml, k) = 0},
                 !.all_player_data = AllPlayerData(ml, Len(ml.teams))]
    /\ UNCHANGED OthersOfMl

\* a player upsert that leaves player_key_to_id as it was
main_upsert_players_unmapped ==
    /\ ml.pc = "upsert_players"
    /\ LET r == UpsertChunks(ml.store, "players", ml.all_player_data, 0,
                             <<>>, ml.unique)
       IN ml' = [ml EXCEPT !.pc = "stats", !.store = r.store,
                           !.playersResult = r.result]
    /\ UNCHANGED OthersOfMl

main_upsert_players ==
    /\ ml.pc = "upsert_players"
    /\ LET r == UpsertChunks(ml.store, "players", ml.all_player_data, 0,
                             <<>>, ml.unique)
       IN ml' = [ml EXCEPT
                    !.pc = "stats",
                    !.store = r.store,
                    !.playersResult = r.result,
                    !.player_key_to_id =
                        UpdateKeyToId(<<>>, r.result, Len(r.result))]
    /\ UNCHANGED OthersOfMl

\* if player_stats: the stats whose player and team both resolve are
\* upserted
main_player_stats ==
    /\ ml.pc = "stats"
    /\ LET pid(stat) == Lookup(ml.player_key_to_id, ToString(stat.PlayerID))
           tid(stat) == Lookup(ml.team_key_to_id, ToString(stat.TeamID))
           kept == SelectSeq(ml.player_stats,
                             LAMBDA stat : pid(stat) # 0 /\ tid(stat) # 0)
           stats_data == [n \in DOMAIN kept |->
                             prepare_player_season_stats_for_db(
                                 pid(kept[n]), tid(kept[n]))]
           r == UpsertChunks(ml.store, "player_season_stats", stats_data, 0,
                             <<>>, ml.unique)
       IN ml' = [ml EXCEPT !.pc = "games", !.store = r.store,
                           !.stats_data = stats_data]
    /\ UNCHANGED OthersOfMl

\* if games: the games whose two teams both resolve are upserted
main_games ==
    /\ ml.pc = "games"
    /\ LET home(game) == Lookup(ml.team_key_to_id, ToString(game.HomeTeamID))
           away(game) == Lookup(ml.team_key_to_id, ToString(game.AwayTeamID))
           kept == SelectSeq(ml.games,
                             LAMBDA game : home(game) # 0 /\ away(game) # 0)
           game_data == [n \in DOMAIN kept |->
                            prepare_game_for_db(kept[n], home(kept[n]),
                                                away(kept[n]))]
           r == UpsertChunks(ml.store, "games", game_data, 0, <<>>, ml.unique)
       IN ml' = [ml EXCEPT !.pc = "done", !.store = r.store,
                           !.game_data = game_data]
    /\ UNCHANGED OthersOfMl

MlInit ==
    \E teams \in TeamLists :
    \E rosters \in [DOMAIN teams -> RosterOptions] :
    \E player_stats \in StatsOptions : \E games \in GamesOptions :
    \E raises \in SUBSET {2} :
        ml = [MlIdle EXCEPT
                 !.pc = "league", !.teams = teams, !.rosters = rosters,
                 !.player_stats = player_stats, !.games = games,
                 !.selectRaises = raises]

MlNext ==
    \/ main_league
    \/ main_league_fails
    \/ main_get_all_teams
    \/ main_upsert_teams
    \/ main_rosters
    \/ main_upsert_players
    \/ main_player_stats
    \/ main_games

(***************************************************************************)
(* The two player pipelines: SupabaseManager.upsert_players or main of     *)
(* fetch_mlb_data.py runs.                                                 *)
(***************************************************************************)
InitPlayers ==
    /\ \/ SmInit /\ ml = MlIdle
       \/ MlInit /\ sm = SmIdle
    /\ up = UpIdle /\ pg = PgIdle /\ fd = FdIdle /\ rl = RlIdle
    /\ ca = CaIdle /\ us = UsIdle
    /\ pp = PpIdle
    /\ tl = TlIdle
    /\ sl = SlIdle
    /\ ex = ExIdle
    /\ pu = PuIdle
    /\ rt = RtIdle
    /\ rr = RrIdle
    /\ nm = NmIdle
    /\ cs = CsIdle
    /\ er = ErIdle
    /\ cd = CdIdle
    /\ sb = SbIdle

NextPlayers == SmNext \/ MlNext

SpecPlayers == InitPlayers /\ [][NextPlayers]_vars

\* the transform of upsert_players ran on a team map that was there
SmPrepared == sm.pc \in {"batch", "rows", "done"} /\ sm.teamMap # <<>>

(* C8: once an upsert has returned rows, looking up the external_id of a   *)
(* row written in this run gives that row's internal id, from the map      *)
(* built out of the upsert results alone: the map upsert_players returns,  *)
(* and player_key_to_id of main, through which the stats rows then refer   *)
(* to players of the table.                                                *)
C8_IdMapFromUpsertResult ==
    /\ (sm.pc = "done" /\ sm.upsertData # <<>>)
       => \A e \in sm.written :
             Get(sm.ret, ToString(e)) = ToString(PlayerRowId(e))
    /\ ml.pc \in {"stats", "games", "done"}
       => /\ \A n \in DOMAIN ml.store.players :
                LET r == ml.store.players[n]
                IN r.ek = "value"
                   => Lookup(ml.player_key_to_id, ToString(r.ext)) = r.id
          /\ \A n \in DOMAIN ml.stats_data :
                \E m \in DOMAIN ml.store.players :
                   ml.store.players[m].id = ml.stats_data[n].key[1]

\* main has written two players and a stats row that refers to one of them
C8_Witness ==
    /\ ml.pc = "done"
    /\ Len(ml.store.players) >= 2
    /\ ml.stats_data # <<>>
    /\ DOMAIN ml.player_key_to_id # {}

(* C10 as the spec states it: with a store that takes every write, a       *)
(* player whose team is not in the team id map is written all the same,    *)
(* with a null team reference.                                             *)
C10_UnresolvedTeamPlayerStoredWithNull ==
    /\ (/\ sm.pc = "done" /\ sm.teamMap # <<>>
        /\ sm.rowLogged = {} /\ sm.batchTried = sm.batchOk)
       => \A k \in DOMAIN sm.players :
             (/\ sm.players[k].named /\ sm.players[k].keyed
              /\ ResolveTeam(sm.players[k], sm.teamMap) = "null")
             => k \in sm.written
    /\ (ml.pc = "done" /\ ml.rostersDone)
       => \A k \in DOMAIN ml.teams :
             TeamSupabaseId(ml, k) = 0
             => \A n \in DOMAIN ml.rosters[k] :
                   \E m \in DOMAIN ml.store.players :
                      /\ ml.store.players[m].ext = ml.rosters[k][n]
                      /\ ml.store.players[m].val = 0

(* C10 amended: a player whose team is not in the team id map is skipped:  *)
(* upsert_players leaves it out of the rows it sends and main skips the    *)
(* whole roster of a team without a Supabase id, so no player row with a   *)
(* null team reference is written; the players whose team resolves are     *)
(* still sent to the store.                                                *)
C10_UnresolvedTeamPlayerIsSkipped ==
    /\ SmPrepared
       => /\ \A k \in DOMAIN sm.players :
                ResolveTeam(sm.players[k], sm.teamMap) = "null"
                => /\ k \in sm.skipped
                   /\ k \notin sm.written
                   /\ \A n \in DOMAIN sm.upsertData :
                         sm.upsertData[n].external_id # k
          /\ \A k \in DOMAIN sm.players :
                (/\ sm.players[k].named /\ sm.players[k].keyed
                 /\ ResolveTeam(sm.players[k], sm.teamMap) # "null")
                => \E n \in DOMAIN sm.upsertData :
                      sm.upsertData[n].external_id = k
          /\ \A n \in DOMAIN sm.upsertData :
                sm.upsertData[n].current_team_id # "null"
    /\ ml.rostersDone
       => /\ \A k \in DOMAIN ml.teams :
                IF TeamSupabaseId(ml, k) = 0
                THEN k \in ml.skippedRosters
                ELSE \A n \in DOMAIN ml.rosters[k] :
                        \E m \in DOMAIN ml.all_player_data :
                           ml.all_player_data[m] = RosterRows(ml, k)[n]
          /\ \A m \in DOMAIN ml.all_player_data :
                ml.all_player_data[m].val # 0
          /\ \A m \in DOMAIN ml.store.players :
                ml.store.players[m].val # 0

\* upsert_players returned after skipping a named, keyed player whose team
\* is not in the map and writing another player
C10_Witness ==
    /\ sm.pc = "done"
    /\ \E k \in sm.skipped :
          /\ sm.players[k].named /\ sm.players[k].keyed
          /\ ResolveTeam(sm.players[k], sm.teamMap) = "null"
          /\ \E j \in sm.written : j # k

(***************************************************************************)
(* NBADataSync.process_player (nba_data_sync.py) and the player step of    *)
(* scrape_and_update (scrape_espn_data.py): one vendor record.             *)
(*                                                                         *)
(* A vendor record of process_player is                                    *)
(*   player       "dict", "None" (the key holds null) or "absent"          *)
(*   id           player['id'], 0 when there is none                       *)
(*   firstName, lastName   a string, "" when the key is absent, Null when  *)
(*                it holds null                                            *)
(*   currentTeam  "dict", "None" or "absent", and teamId its 'id' (0 when  *)
(*                the dict has none)                                       *)
(* outcome is "row" (a row is returned), "None" (the record is skipped) or *)
(* "raises" (an exception leaves the function).                            *)
(***************************************************************************)
NameValues == {"", " Al ", Null}

\* str.strip() on the names of the model
Strip(x) == IF x = " Al " THEN "Al" ELSE x

\* hashlib.md5(f"{first_name}_{last_name}_{birthDate}") : the generated id
\* is a function of the names
GeneratedId(first_name, last_name) ==
    "gen_" \o first_name \o "_" \o last_name

PlayerRecords ==
    [player : {"dict", "None", "absent"}, id : {0, 1}, firstName : NameValues,
     lastName : NameValues, currentTeam : {"dict", "None", "absent"},
     teamId : TeamIds \cup {0}]

\* a vendor record is well formed: without a 'player' dict it has no fields,
\* and only a currentTeam dict has an id
WellFormed(d) ==
    /\ d.player # "dict"
       => /\ d.id = 0 /\ d.firstName = "" /\ d.lastName = ""
          /\ d.currentTeam = "absent"
    /\ d.currentTeam # "dict" => d.teamId = 0

\* a transform that resolves the team through the team id map
MappedTeamId(d) ==
    IF d.currentTeam = "dict" /\ d.teamId # 0 THEN TeamRowId(d.teamId) ELSE 0

\* player.get('currentTeam', {}).get('id') if isinstance(..., dict) else None
VendorTeamId(d) == IF d.currentTeam = "dict" THEN d.teamId ELSE 0

\* process_player(player_data) with self.total_errors = errors
process_player(d, errors) ==
    \* 'height' in player, before the try: a null player raises TypeError
    IF d.player = "None"
    THEN [outcome |-> "raises", row |-> NoRow, total_errors |-> errors]
    \* None.strip() raises inside the try: counted, logged, None returned
    ELSE IF d.firstName = Null \/ d.lastName = Null
    THEN [outcome |-> "None", row |-> NoRow, total_errors |-> errors + 1]
    ELSE LET first_name == Strip(d.firstName)
             last_name  == Strip(d.lastName)
         IN IF d.id = 0 /\ ~(first_name # "" /\ last_name # "")
            THEN [outcome |-> "None", row |-> NoRow, total_errors |-> errors]
            ELSE LET player_id == IF d.id = 0
                                  THEN GeneratedId(first_name, last_name)
                                  ELSE ToString(d.id)
                 IN [outcome |-> "row",
                     row |-> [id |-> player_id,
                              external_player_id |-> player_id,
                              first_name |-> first_name,
                              last_name |-> last_name,
                              team_id |-> VendorTeamId(d)],
                     total_errors |-> errors]

process_player_call ==
    /\ pp.pc = "call" /\ pp.script = "process_player"
    /\ LET r == process_player(pp.player_data, pp.total_errors)
       IN pp' = [pp EXCEPT !.pc = "done", !.outcome = r.outcome,
                           !.row = r.row, !.total_errors = r.total_errors]
    /\ UNCHANGED OthersOfPp

SportKeys == {"nba", "mlb"}

\* f"{sport['key']}_{team_id}", with str(None) for a team without an id
PrefixedTeamId(sport, team_id) ==
    sport \o "_" \o (IF team_id = 0 THEN "None" ELSE ToString(team_id))

\* player_record, after the keys whose value is None are dropped
player_record(sport, team_id, player_id) ==
    [espn_id |-> sport \o "_" \o ToString(player_id),
     team_id |-> PrefixedTeamId(sport, team_id)]

\* for athlete in athletes: a player without an id is skipped; the record
\* is upserted
scrape_and_update_player ==
    /\ pp.pc = "call" /\ pp.script = "scrape_and_update"
    /\ pp' = IF pp.player_id = 0
             THEN [pp EXCEPT !.pc = "done", !.outcome = "None"]
             ELSE [pp EXCEPT !.pc = "done", !.outcome = "row",
                             !.record = player_record(pp.sport, pp.team_id,
                                                      pp.player_id)]
    /\ UNCHANGED OthersOfPp

\* the upsert raises: the failure is logged and the loop goes on
scrape_and_update_player_fails ==
    /\ pp.pc = "call" /\ pp.script = "scrape_and_update"
    /\ pp.player_id # 0
    /\ pp' = [pp EXCEPT !.pc = "done", !.outcome = "None"]
    /\ UNCHANGED OthersOfPp

PpInit ==
    \/ \E d \in {x \in PlayerRecords : WellFormed(x)} :
       \E errors \in 0..MaxErrors :
          pp = [PpIdle EXCEPT !.pc = "call", !.script = "process_player",
                              !.player_data = d, !.total_errors = errors]
    \/ \E sport \in SportKeys : \E team_id \in TeamIds \cup {0} :
       \E player_id \in {0, 1} :
          pp = [PpIdle EXCEPT !.pc = "call", !.script = "scrape_and_update",
                              !.sport = sport, !.team_id = team_id,
                              !.player_id = player_id]

PpNext ==
    \/ process_player_call
    \/ scrape_and_update_player
    \/ scrape_and_update_player_fails

InitTransform ==
    /\ PpInit
    /\ up = UpIdle /\ sm = SmIdle /\ pg = PgIdle /\ fd = FdIdle /\ rl = RlIdle
    /\ ca = CaIdle /\ us = UsIdle /\ ml = MlIdle
    /\ tl = TlIdle
    /\ sl = SlIdle
    /\ ex = ExIdle
    /\ pu = PuIdle
    /\ rt = RtIdle
    /\ rr = RrIdle
    /\ nm = NmIdle
    /\ cs = CsIdle
    /\ er = ErIdle
    /\ cd = CdIdle
    /\ sb = SbIdle

NextTransform == PpNext

SpecTransform == InitTransform /\ [][NextTransform]_vars

(***************************************************************************)
(* The transforms that build a player row: process_player and the ESPN     *)
(* player step, SupabaseManager.upsert_players, main of fetch_mlb_data.py. *)
(***************************************************************************)
InitTeamRefs ==
    /\ \/ PpInit /\ sm = SmIdle /\ ml = MlIdle
       \/ SmInit /\ pp = PpIdle /\ ml = MlIdle
       \/ MlInit /\ pp = PpIdle /\ sm = SmIdle
    /\ up = UpIdle /\ pg = PgIdle /\ fd = FdIdle /\ rl = RlIdle
    /\ ca = CaIdle /\ us = UsIdle
    /\ tl = TlIdle
    /\ sl = SlIdle
    /\ ex = ExIdle
    /\ pu = PuIdle
    /\ rt = RtIdle
    /\ rr = RrIdle
    /\ nm = NmIdle
    /\ cs = CsIdle
    /\ er = ErIdle
    /\ cd = CdIdle
    /\ sb = SbIdle

NextTeamRefs == PpNext \/ SmNext \/ MlNext

SpecTeamRefs == InitTeamRefs /\ [][NextTeamRefs]_vars

\* process_player returned a row
PpRow ==
    pp.pc = "done" /\ pp.script = "process_player" /\ pp.outcome = "row"

C13_NoIdReturnsNone ==
    (/\ pp.pc = "done" /\ pp.script = "process_player"
     /\ pp.player_data.id = 0)
    => pp.outcome = "None"

(***************************************************************************)
(* The loops that transform the vendor records one by one and hand the     *)
(* rows to an upsert: SupabaseManager.upsert_teams (sync_sports_data.py),  *)
(* NBADataSync.run (nba_data_sync.py), upsert_teams (scrape_teams_only.py).*)
(*                                                                         *)
(* A record is "ok" or "bad": the transform of a bad record raises (a team *)
(* without TeamID raises KeyError in SupabaseManager.upsert_teams).        *)
(*   k            the position of the record the loop is at                *)
(*   transformed  the positions of the records whose row was built         *)
(*   logged       the positions whose error was logged                     *)
(*   sent         the positions whose row was handed to the upsert         *)
(*   raised       an exception left the function                           *)
(***************************************************************************)
RecordFlags == {"ok", "bad"}

RecordInputs == UNION {[1..n -> RecordFlags] : n \in 0..MaxRecords}

\* the loop goes on with the next record, or leaves for the upsert
TlAdvance(t) ==
    IF t.k >= Len(t.records)
    THEN [t EXCEPT !.k = t.k + 1, !.pc = "upsert"]
    ELSE [t EXCEPT !.k = t.k + 1]

\* for team in teams_data: the row is appended; except KeyError: log, raise
upsert_teams_team ==
    /\ tl.pc = "transform" /\ tl.script = "SupabaseManager.upsert_teams"
    /\ tl' = IF tl.records[tl.k] = "ok"
             THEN TlAdvance([tl EXCEPT !.transformed = Append(@, tl.k)])
             ELSE [tl EXCEPT !.logged = @ \cup {tl.k}, !.raised = TRUE,
                             !.pc = "done"]
    /\ UNCHANGED OthersOfTl

\* the batches of upsert_data are posted
upsert_teams_post ==
    /\ tl.pc = "upsert" /\ tl.script = "SupabaseManager.upsert_teams"
    /\ tl' = [tl EXCEPT !.sent = Range(tl.transformed), !.pc = "done"]
    /\ UNCHANGED OthersOfTl

\* for player_data in players_data: process_player; except Exception: log,
\* continue
run_process_player ==
    /\ tl.pc = "transform" /\ tl.script = "NBADataSync.run"
    /\ tl' = IF tl.records[tl.k] = "ok"
             THEN TlAdvance([tl EXCEPT !.transformed = Append(@, tl.k)])
             ELSE TlAdvance([tl EXCEPT !.logged = @ \cup {tl.k}])
    /\ UNCHANGED OthersOfTl

\* if not processed_players: return; else sync_players_to_db
run_sync_players ==
    /\ tl.pc = "upsert" /\ tl.script = "NBADataSync.run"
    /\ tl' = [tl EXCEPT !.sent = Range(tl.transformed), !.pc = "done"]
    /\ UNCHANGED OthersOfTl

\* for team in teams_data: transform_team_data; except Exception: log
scrape_upsert_teams_transform ==
    /\ tl.pc = "transform" /\ tl.script = "scrape_teams_only.upsert_teams"
    /\ tl' = IF tl.records[tl.k] = "ok"
             THEN TlAdvance([tl EXCEPT !.transformed = Append(@, tl.k)])
             ELSE TlAdvance([tl EXCEPT !.logged = @ \cup {tl.k}])
    /\ UNCHANGED OthersOfTl

\* the batches of transformed_data are upserted
scrape_upsert_teams_upsert ==
    /\ tl.pc = "upsert" /\ tl.script = "scrape_teams_only.upsert_teams"
    /\ tl' = [tl EXCEPT !.sent = Range(tl.transformed), !.pc = "done"]
    /\ UNCHANGED OthersOfTl

TlScripts ==
    {"SupabaseManager.upsert_teams", "NBADataSync.run",
     "scrape_teams_only.upsert_teams"}

\* each of the three returns at once when it is given no records
InitLoops ==
    /\ \E script \in TlScripts : \E records \in RecordInputs :
          tl = [TlIdle EXCEPT
                   !.script = script, !.records = records,
                   !.pc = IF records = <<>> THEN "done" ELSE "transform"]
    /\ up = UpIdle /\ sm = SmIdle /\ pg = PgIdle /\ fd = FdIdle /\ rl = RlIdle
    /\ ca = CaIdle /\ us = UsIdle /\ ml = MlIdle /\ pp = PpIdle
    /\ sl = SlIdle
    /\ ex = ExIdle
    /\ pu = PuIdle
    /\ rt = RtIdle
    /\ rr = RrIdle
    /\ nm = NmIdle
    /\ cs = CsIdle
    /\ er = ErIdle
    /\ cd = CdIdle
    /\ sb = SbIdle

NextLoops ==
    \/ upsert_teams_team
    \/ upsert_teams_post
    \/ run_process_player
    \/ run_sync_players
    \/ scrape_upsert_teams_transform
    \/ scrape_upsert_teams_upsert

SpecLoops == InitLoops /\ [][NextLoops]_vars

(* C12: when the transform of one record raises, the error is logged and   *)
(* the other records of the batch are still transformed and handed to the  *)
(* upsert.                                                                 *)
C12_TransformErrorKeepsTheBatch ==
    tl.pc = "done"
    => /\ ~tl.raised
       /\ \A k \in DOMAIN tl.records :
             IF tl.records[k] = "ok" THEN k \in tl.sent ELSE k \in tl.logged

(* C14: no row sent to the store holds a key whose value is None; here the *)
(* game rows main of fetch_mlb_data.py hands to upsert_data_to_supabase,   *)
(* which writes every key of a row it is given.                            *)
C14_NoNullValueSent ==
    \A n \in DOMAIN ml.game_data : ml.game_data[n].val.home_score # Null

(***************************************************************************)
(* SportsDataSync.sync_league (sync_sports_data.py): the stages of one     *)
(* league, inside one try whose except clause logs the exception.          *)
(*                                                                         *)
(* A fetch of SportsDataClient answers "data", "empty" (an empty list) or  *)
(* "None" (the request failed: _make_request logs and returns None).  A    *)
(* request to the store succeeds or raises.                                *)
(*   executed   the stages that were started                               *)
(*   logged     the stages in which the except clause of sync_league       *)
(*              caught an exception                                        *)
(*   team_id_map, players, stats, games   what the stages obtained         *)
(*   teams, all_players   what get_teams and the league-wide get_players   *)
(*              answered                                                   *)
(***************************************************************************)
Fetched == {"data", "empty", "None"}

StoreAnswers == {"ok", "raises"}

\* if not x  for a fetched value
Nothing(x) == x \in {"empty", "None"}

\* except Exception as e: logger.error(...); the call returns
SlCaught(s, stage) ==
    [s EXCEPT !.pc = "done", !.executed = @ \cup {stage},
              !.logged = @ \cup {stage}]

SlRan(s, stage, next) ==
    [s EXCEPT !.pc = next, !.executed = @ \cup {stage}]

\* client = self.clients.get(league.value); if not client: return
sync_league_client ==
    /\ sl.pc = "client"
    /\ sl' = [sl EXCEPT !.pc = IF sl.hasClient THEN "league" ELSE "done"]
    /\ UNCHANGED OthersOfSl

\* league_id = await self.supabase.get_league_id(league_name), which logs
\* and re-raises what the store raises
sync_league_get_league_id ==
    /\ sl.pc = "league"
    /\ \E store \in StoreAnswers :
          sl' = IF store = "raises" THEN SlCaught(sl, "league")
                ELSE SlRan(sl, "league", "teams")
    /\ UNCHANGED OthersOfSl

\* teams = await client.get_teams(league); upsert_teams returns {} when it
\* is given nothing, and raises what the store or a team record raises
sync_league_teams ==
    /\ sl.pc = "teams"
    /\ \E teams \in Fetched : \E upsert_teams \in StoreAnswers :
          sl' = IF Nothing(teams)
                THEN SlRan([sl EXCEPT !.teams = teams,
                                      !.team_id_map = "empty"],
                           "teams", "players")
                ELSE IF upsert_teams = "raises"
                THEN SlCaught([sl EXCEPT !.teams = teams], "teams")
                ELSE SlRan([sl EXCEPT !.teams = teams,
                                      !.team_id_map = "data"],
                           "teams", "players")
    /\ UNCHANGED OthersOfSl

\* players = await client.get_players(league); len(None) raises inside the
\* inner try, whose fallback asks team by team; upsert_players catches what
\* the store raises
sync_league_players ==
    /\ sl.pc = "players"
    /\ \E players \in Fetched : \E per_team \in Fetched :
          LET got == IF players # "None" THEN players
                     ELSE IF sl.team_id_map = "empty" \/ Nothing(per_team)
                     THEN "empty"
                     ELSE "data"
          IN sl' = SlRan([sl EXCEPT !.all_players = players,
                                    !.players = got],
                         "players", "stats")
    /\ UNCHANGED OthersOfSl

\* stats = await client.get_player_season_stats(...); upsert_player_seasons
\* returns at once when given nothing and lets the store's exception out;
\* then len(stats) is logged, which raises TypeError for None
sync_league_stats ==
    /\ sl.pc = "stats"
    /\ \E stats \in Fetched : \E store \in StoreAnswers :
          sl' = IF stats = "None" THEN SlCaught(sl, "stats")
                ELSE IF stats = "data" /\ sl.players = "data"
                        /\ sl.team_id_map = "data" /\ store = "raises"
                THEN SlCaught(sl, "stats")
                ELSE SlRan([sl EXCEPT !.stats = stats], "stats", "games")
    /\ UNCHANGED OthersOfSl

\* games = await client.get_games(...); upsert_games returns {} when given
\* nothing and lets the store's exception out
sync_league_games ==
    /\ sl.pc = "games"
    /\ \E games \in Fetched : \E store \in StoreAnswers :
          sl' = IF games = "data" /\ sl.team_id_map = "data"
                   /\ store = "raises"
                THEN SlCaught(sl, "games")
                ELSE SlRan([sl EXCEPT !.games = games], "games", "odds")
    /\ UNCHANGED OthersOfSl

\* await self.sync_betting_odds(league, games, client), which returns at
\* once when there are no games and lets the store's exception out
sync_league_betting_odds ==
    /\ sl.pc = "odds"
    /\ \E store \in StoreAnswers :
          sl' = IF ~Nothing(sl.games) /\ store = "raises"
                THEN SlCaught(sl, "odds")
                ELSE SlRan(sl, "odds", "done")
    /\ UNCHANGED OthersOfSl

InitLeague ==
    /\ \E hasClient \in BOOLEAN :
          sl = [SlIdle EXCEPT !.pc = "client", !.hasClient = hasClient]
    /\ up = UpIdle /\ sm = SmIdle /\ pg = PgIdle /\ fd = FdIdle /\ rl = RlIdle
    /\ ca = CaIdle /\ us = UsIdle /\ ml = MlIdle /\ pp = PpIdle
    /\ tl = TlIdle
    /\ ex = ExIdle
    /\ pu = PuIdle
    /\ rt = RtIdle
    /\ rr = RrIdle
    /\ nm = NmIdle
    /\ cs = CsIdle
    /\ er = ErIdle
    /\ cd = CdIdle
    /\ sb = SbIdle

NextLeague ==
    \/ sync_league_client
    \/ sync_league_get_league_id
    \/ sync_league_teams
    \/ sync_league_players
    \/ sync_league_stats
    \/ sync_league_games
    \/ sync_league_betting_odds

SpecLeague == InitLeague /\ [][NextLeague]_vars

LaterStages == {"players", "stats", "games", "odds"}

(* C15: once the teams stage of a run has started, a failure of a stage is *)
(* dealt with inside that stage and every later stage (players, stats,     *)
(* games, odds) is still executed.                                         *)
C15_LaterStagesStillRun ==
    (sl.pc = "done" /\ "teams" \in sl.executed)
    => LaterStages \subseteq sl.executed

(***************************************************************************)
(* The exit status of a script run from the command line.                  *)
(*   script     the script that runs                                       *)
(*   vendor, store   the vendor and the store credentials are set          *)
(*   pc         "start", "fetch", "lookup", "records", "exited"            *)
(*   status     the exit status of the process, once exited                *)
(*   requests   network requests issued so far                             *)
(*   errors     per-record errors logged so far                            *)
(*   left       records still to be processed                              *)
(*   failed     the step outside the record loop that failed, if any       *)
(* sys.exit(1) and an exception that leaves the script give status 1; a    *)
(* main that returns gives status 0.                                       *)
(***************************************************************************)
Scripts ==
    {"fetch_mlb_data", "fetch_mlb_games", "fetch_player_stats",
     "test_stats_sync", "sync_nba_players_with_stats", "nba_data_sync"}

\* the credentials a script reads from the environment and uses
Required(script) ==
    IF script \in {"fetch_player_stats", "sync_nba_players_with_stats"}
    THEN {"vendor"}
    ELSE {"vendor", "store"}

Missing(e) ==
    \/ "vendor" \in Required(e.script) /\ ~e.vendor
    \/ "store" \in Required(e.script) /\ ~e.store

Exit(e, status) == [e EXCEPT !.pc = "exited", !.status = status]

\* fetch_mlb_data.py, module level: sys.exit(1) when a key is not set
fetch_mlb_data_module ==
    /\ ex.pc = "start" /\ ex.script = "fetch_mlb_data"
    /\ ex' = IF ~ex.vendor \/ ~ex.store THEN Exit(ex, 1)
             ELSE [ex EXCEPT !.pc = "fetch"]
    /\ UNCHANGED OthersOfEx

\* fetch_mlb_games.main: sys.exit(1) when a key is not set
fetch_mlb_games_main ==
    /\ ex.pc = "start" /\ ex.script = "fetch_mlb_games"
    /\ ex' = IF ~ex.vendor \/ ~ex.store THEN Exit(ex, 1)
             ELSE [ex EXCEPT !.pc = "fetch"]
    /\ UNCHANGED OthersOfEx

\* fetch_player_stats.main: logs and returns when a vendor key is not set
fetch_player_stats_main ==
    /\ ex.pc = "start" /\ ex.script = "fetch_player_stats"
    /\ ex' = IF ~ex.vendor THEN Exit(ex, 0)
             ELSE [ex EXCEPT !.pc = "fetch"]
    /\ UNCHANGED OthersOfEx

\* test_stats_sync.main: logs and returns when any key is not set
test_stats_sync_main ==
    /\ ex.pc = "start" /\ ex.script = "test_stats_sync"
    /\ ex' = IF ~ex.vendor \/ ~ex.store THEN Exit(ex, 0)
             ELSE [ex EXCEPT !.pc = "fetch"]
    /\ UNCHANGED OthersOfEx

\* sync_nba_players_with_stats.main: NBADataSync() raises ValueError when a
\* vendor key is not set, main logs it and calls sys.exit(1)
sync_nba_players_with_stats_main ==
    /\ ex.pc = "start" /\ ex.script = "sync_nba_players_with_stats"
    /\ ex' = IF ~ex.vendor THEN Exit(ex, 1)
             ELSE [ex EXCEPT !.pc = "fetch"]
    /\ UNCHANGED OthersOfEx

\* nba_data_sync.main: NBADataSync.__init__ checks no key; create_client
\* refuses an absent store key and main re-raises; with the store key set,
\* ensure_db_schema queries the store and the run goes on, the vendor key
\* being None included
nba_data_sync_main ==
    /\ ex.pc = "start" /\ ex.script = "nba_data_sync"
    /\ ex' = IF ~ex.store THEN Exit(ex, 1)
             ELSE [ex EXCEPT !.pc = "fetch", !.requests = @ + 1]
    /\ UNCHANGED OthersOfEx

\* what a script does when the vendor request fails: fetch_mlb_games.main
\* calls sys.exit(1); the others log and return or go on with nothing
FetchFailureStatus(script) == IF script = "fetch_mlb_games" THEN 1 ELSE 0

\* the fetch from the vendor; a request without the vendor key is refused
script_fetch ==
    /\ ex.pc = "fetch"
    /\ \E answer \in Fetched : \E n \in 1..MaxRecords :
          /\ ~ex.vendor => answer = "None"
          /\ LET e == [ex EXCEPT !.requests = @ + 1]
             IN ex' = IF answer = "None"
                      THEN Exit([e EXCEPT !.failed = "fetch"],
                                FetchFailureStatus(ex.script))
                      ELSE IF answer = "empty" THEN Exit(e, 0)
                      ELSE [e EXCEPT !.left = n,
                                     !.pc = IF ex.script = "fetch_mlb_games"
                                            THEN "lookup" ELSE "records"]
    /\ UNCHANGED OthersOfEx

\* fetch_mlb_games: process_and_store_games reads the league before its
\* loop; a store error there reaches the except clause of main
fetch_mlb_games_get_league_id ==
    /\ ex.pc = "lookup"
    /\ \E answer \in {"found", "absent", "raises"} :
          LET e == [ex EXCEPT !.requests = @ + 1]
          IN ex' = IF answer = "raises"
                   THEN Exit([e EXCEPT !.failed = "lookup"], 1)
                   ELSE IF answer = "absent" THEN Exit(e, 0)
                   ELSE [e EXCEPT !.pc = "records"]
    /\ UNCHANGED OthersOfEx

\* one record of the loop: transformed and upserted, or its error logged
script_record ==
    /\ ex.pc = "records" /\ ex.left > 0
    /\ \E ok \in BOOLEAN :
          ex' = [ex EXCEPT !.left = @ - 1, !.requests = @ + 1,
                           !.errors = IF ok THEN @ ELSE @ + 1]
    /\ UNCHANGED OthersOfEx

\* the loop is over: main returns
script_returns ==
    /\ ex.pc = "records" /\ ex.left = 0
    /\ ex' = Exit(ex, 0)
    /\ UNCHANGED OthersOfEx

InitExit ==
    /\ \E script \in Scripts : \E vendor \in BOOLEAN : \E store \in BOOLEAN :
          ex = [ExIdle EXCEPT !.script = script, !.vendor = vendor,
                              !.store = store, !.pc = "start"]
    /\ up = UpIdle /\ sm = SmIdle /\ pg = PgIdle /\ fd = FdIdle /\ rl = RlIdle
    /\ ca = CaIdle /\ us = UsIdle /\ ml = MlIdle /\ pp = PpIdle
    /\ tl = TlIdle /\ sl = SlIdle
    /\ pu = PuIdle
    /\ rt = RtIdle
    /\ rr = RrIdle
    /\ nm = NmIdle
    /\ cs = CsIdle
    /\ er = ErIdle
    /\ cd = CdIdle
    /\ sb = SbIdle

NextExit ==
    \/ fetch_mlb_data_module
    \/ fetch_mlb_games_main
    \/ fetch_player_stats_main
    \/ test_stats_sync_main
    \/ sync_nba_players_with_stats_main
    \/ nba_data_sync_main
    \/ script_fetch
    \/ fetch_mlb_games_get_league_id
    \/ script_record
    \/ script_returns

SpecExit == InitExit /\ [][NextExit]_vars

(* C16: a script started with a required vendor or store credential        *)
(* missing ends with a non-zero exit status and has issued no network      *)
(* request.                                                                *)
C16_MissingCredentialExitsNonZero ==
    (ex.pc \notin {"idle", "start"} /\ Missing(ex))
    => (ex.pc = "exited" /\ ex.status # 0 /\ ex.requests = 0)

(* C17: a script started with its credentials present ends with exit       *)
(* status zero, whatever fetch failed and whatever record raised.          *)
C17_ExitsZeroOnceCredentialsPresent ==
    (ex.pc = "exited" /\ ~Missing(ex)) => ex.status = 0

(***************************************************************************)
(* PlayerStatsUpdater.run (update_player_stats.py): the players are cut    *)
(* into batches of BATCH_SIZE, one update_player_stats task per player,    *)
(* and each batch is awaited with asyncio.gather.  The tasks of a batch    *)
(* are alike, so a batch is kept as the number of its tasks at each        *)
(* suspension point; one action is the run of one task from a suspension   *)
(* point to the next.                                                      *)
(*   players    number of players read from the store                      *)
(*   i          the loop variable of run                                   *)
(*   batch      number of batches created so far                           *)
(*   created[k]    tasks of batch k that have not run yet                  *)
(*   search[k]     tasks of batch k awaiting the player search request     *)
(*   gamelogs[k]   tasks of batch k awaiting the game log request          *)
(*   completed[k]  tasks of batch k that have returned                     *)
(*   total_processed, total_errors   the counters of the updater           *)
(*   returned, raised   tasks whose upsert returned data, tasks in which   *)
(*                 the upsert raised                                       *)
(***************************************************************************)
BATCH_SIZE == 10

Batches == 1..((MaxUpdaterPlayers + BATCH_SIZE - 1) \div BATCH_SIZE)

\* tasks of batch k that were created and have not returned
Live(p, k) == p.created[k] + p.search[k] + p.gamelogs[k]

RECURSIVE LiveUpTo(_, _)
LiveUpTo(p, k) == IF k = 0 THEN 0 ELSE Live(p, k) + LiveUpTo(p, k - 1)

InFlight(p) == LiveUpTo(p, p.batch)

\* self.total_processed += 1, and likewise for total_errors
BumpLost(p, counter) == p

Bump(p, counter) == [p EXCEPT ![counter] = @ + 1]

\* a task returns
TaskReturns(p, k) == [p EXCEPT !.completed[k] = @ + 1]

\* await asyncio.gather(*tasks) returns when one task has returned
GatherReturnsEarly(p) == p.completed[p.batch] > 0

\* await asyncio.gather(*tasks) returns when every task has returned
GatherReturns(p) == Live(p, p.batch) = 0

\* players = await self.get_players(); if not players: return
updater_get_players ==
    /\ pu.pc = "get_players"
    /\ pu' = [pu EXCEPT !.pc = IF pu.players = 0 THEN "done" ELSE "loop"]
    /\ UNCHANGED OthersOfPu

\* batch = players[i:i + BATCH_SIZE]; tasks = [...]; asyncio.gather(*tasks)
updater_gather ==
    /\ pu.pc = "loop" /\ pu.i < pu.players
    /\ LET k == pu.batch + 1
       IN pu' = [pu EXCEPT !.pc = "gather", !.batch = k,
                           !.created[k] = Min(BATCH_SIZE, pu.players - pu.i)]
    /\ UNCHANGED OthersOfPu

\* a task runs from its start to the first request of get_player_stats
task_starts ==
    /\ \E k \in Batches :
          /\ pu.created[k] > 0
          /\ pu' = [pu EXCEPT !.created[k] = @ - 1, !.search[k] = @ + 1]
    /\ UNCHANGED OthersOfPu

\* the search answers: the player is found and the game logs are asked
\* for, or get_player_stats returns None and the task returns False
task_search_answers ==
    /\ \E k \in Batches : \E found \in BOOLEAN :
          /\ pu.search[k] > 0
          /\ pu' = IF found
                   THEN [pu EXCEPT !.search[k] = @ - 1, !.gamelogs[k] = @ + 1]
                   ELSE TaskReturns([pu EXCEPT !.search[k] = @ - 1], k)
    /\ UNCHANGED OthersOfPu

\* the game logs answer; with stats the task upserts them, which returns
\* data, returns nothing or raises, and the task returns
task_gamelogs_answer ==
    /\ \E k \in Batches :
       \E answer \in {"no stats", "data", "no data", "raises"} :
          /\ pu.gamelogs[k] > 0
          /\ LET p == TaskReturns([pu EXCEPT !.gamelogs[k] = @ - 1], k)
             IN pu' = CASE answer = "data" ->
                             [Bump(p, "total_processed")
                                EXCEPT !.returned = @ + 1]
                        [] answer = "raises" ->
                             [Bump(p, "total_errors")
                                EXCEPT !.raised = @ + 1]
                        [] OTHER -> p
    /\ UNCHANGED OthersOfPu

\* gather returns and the loop goes to the next batch
updater_next_batch ==
    /\ pu.pc = "gather" /\ GatherReturns(pu)
    /\ pu' = [pu EXCEPT !.pc = "loop", !.i = @ + BATCH_SIZE]
    /\ UNCHANGED OthersOfPu

\* the loop is over
updater_completed ==
    /\ pu.pc = "loop" /\ pu.i >= pu.players
    /\ pu' = [pu EXCEPT !.pc = "done"]
    /\ UNCHANGED OthersOfPu

InitUpdater ==
    /\ \E n \in 0..MaxUpdaterPlayers :
          pu = [PuIdle EXCEPT !.pc = "get_players", !.players = n,
                              !.created = [k \in Batches |-> 0],
                              !.search = [k \in Batches |-> 0],
                              !.gamelogs = [k \in Batches |-> 0],
                              !.completed = [k \in Batches |-> 0]]
    /\ up = UpIdle /\ sm = SmIdle /\ pg = PgIdle /\ fd = FdIdle /\ rl = RlIdle
    /\ ca = CaIdle /\ us = UsIdle /\ ml = MlIdle /\ pp = PpIdle
    /\ tl = TlIdle /\ sl = SlIdle /\ ex = ExIdle
    /\ rt = RtIdle
    /\ rr = RrIdle
    /\ nm = NmIdle
    /\ cs = CsIdle
    /\ er = ErIdle
    /\ cd = CdIdle
    /\ sb = SbIdle

NextUpdater ==
    \/ updater_get_players
    \/ updater_gather
    \/ task_starts
    \/ task_search_answers
    \/ task_gamelogs_answer
    \/ updater_next_batch
    \/ updater_completed

SpecUpdater == InitUpdater /\ [][NextUpdater]_vars

(* C18: whatever the order in which the gathered tasks run between their   *)
(* suspension points, no counter update is lost: total_processed is the    *)
(* number of tasks whose upsert returned data, total_errors the number of  *)
(* tasks that raised, and together they never exceed the number of         *)
(* players.                                                                *)
C18_NoCounterUpdateLost ==
    /\ pu.total_processed = pu.returned
    /\ pu.total_errors = pu.raised
    /\ pu.total_processed + pu.total_errors <= pu.players

\* a run is over in which tasks of one batch were suspended together and
\* both counters were updated
C18_Witness ==
    /\ pu.pc = "done"
    /\ pu.returned >= 2 /\ pu.raised >= 1
    /\ pu.total_processed + pu.total_errors < pu.players

(* C19: at most BATCH_SIZE tasks are in flight at any time, and no task    *)
(* of a batch exists before every task of the batch before it has          *)
(* returned, the tasks that failed included.                               *)
C19_BatchesDoNotOverlap ==
    /\ InFlight(pu) <= BATCH_SIZE
    /\ \A k \in Batches :
          (k > 1 /\ k <= pu.batch)
          => (Live(pu, k - 1) = 0 /\ pu.completed[k - 1] = BATCH_SIZE)

\* tasks of the second batch are running after a task of the first failed
C19_Witness ==
    /\ pu.batch = 2 /\ pu.search[2] > 0
    /\ pu.raised > 0
    /\ pu.completed[1] = BATCH_SIZE

(***************************************************************************)
(* NBADataSync.rate_limit under fetch_data calls made one after another.   *)
(* The clock of the event loop goes in steps of 1/JitterSteps second.      *)
(* Only the distance of the clock from last_request matters to the code,   *)
(* so that distance is what is kept, up to SinceCap.                       *)
(*   since        clock minus self.last_request, at most SinceCap          *)
(*   calls        fetch_data calls of the caller that have returned        *)
(*   retry_count  the retry_count of the running fetch_data                *)
(*   requests     requests sent so far                                     *)
(*   slept        times rate_limit went to sleep                           *)
(*   minGap       least distance seen between the last_request stamps of   *)
(*                two requests in a row (SinceCap when there is none yet)  *)
(***************************************************************************)
RATE_LIMIT == 3

RateTicks == RATE_LIMIT * JitterSteps

SinceCap == RateTicks + 1

Later(since, d) == Min(since + d, SinceCap)

\* a sleep that forgets what has already elapsed
SleepForElapsed(elapsed) == elapsed

\* await asyncio.sleep(RATE_LIMIT - elapsed)
SleepFor(elapsed) == RateTicks - elapsed

\* self.last_request = asyncio.get_event_loop().time(), then the request
Stamp(r) ==
    [r EXCEPT !.pc = "response", !.since = 0, !.requests = @ + 1,
              !.minGap = IF r.requests = 0 THEN @ ELSE Min(@, r.since)]

\* rate_limit up to its sleep, or through to the request when enough time
\* has elapsed
rate_limit_enter ==
    /\ rt.pc = "rate_limit"
    /\ rt' = IF rt.since < RateTicks
             THEN [rt EXCEPT !.pc = "sleeping", !.slept = @ + 1]
             ELSE Stamp(rt)
    /\ UNCHANGED OthersOfRt

\* the sleep of rate_limit is over, no earlier than asked for
rate_limit_wakes ==
    /\ rt.pc = "sleeping"
    /\ \E lag \in 0..MaxLag :
          rt' = Stamp([rt EXCEPT
                        !.since = Later(@, SleepFor(rt.since) + lag)])
    /\ UNCHANGED OthersOfRt

\* the answer to the request: fetch_data returns, or sleeps for the
\* backoff and calls itself again
fetch_data_answer ==
    /\ rt.pc = "response"
    /\ \E lag \in 0..MaxLag : \E jitter \in 0..(JitterSteps - 1) :
       \E response \in {"success", "429", "http_error", "network_error"} :
          LET r == [rt EXCEPT !.since = Later(@, lag)]
              retried == response \in {"429", "network_error"}
                         /\ MayRetry(rt.retry_count)
              backoff == IF response = "429"
                         THEN BackoffWithJitter(rt.retry_count, jitter)
                         ELSE Backoff(rt.retry_count)
          IN rt' = IF retried
                   THEN [r EXCEPT !.pc = "rate_limit",
                                  !.since = Later(@, backoff),
                                  !.retry_count = @ + 1]
                   ELSE [r EXCEPT !.pc = "returned", !.calls = @ + 1]
    /\ UNCHANGED OthersOfRt

\* the caller makes its next fetch_data call
fetch_data_next_call ==
    /\ rt.pc = "returned" /\ rt.calls < MaxTimedCalls
    /\ \E lag \in 0..MaxLag :
          rt' = [rt EXCEPT !.pc = "rate_limit", !.retry_count = 0,
                           !.since = Later(@, lag)]
    /\ UNCHANGED OthersOfRt

InitRate ==
    /\ \E since \in 0..SinceCap :
          rt = [RtIdle EXCEPT !.pc = "rate_limit", !.since = since,
                              !.minGap = SinceCap]
    /\ up = UpIdle /\ sm = SmIdle /\ pg = PgIdle /\ fd = FdIdle /\ rl = RlIdle
    /\ ca = CaIdle /\ us = UsIdle /\ ml = MlIdle /\ pp = PpIdle
    /\ tl = TlIdle /\ sl = SlIdle /\ ex = ExIdle /\ pu = PuIdle
    /\ rr = RrIdle
    /\ nm = NmIdle
    /\ cs = CsIdle
    /\ er = ErIdle
    /\ cd = CdIdle
    /\ sb = SbIdle

NextRate ==
    \/ rate_limit_enter
    \/ rate_limit_wakes
    \/ fetch_data_answer
    \/ fetch_data_next_call

SpecRate == InitRate /\ [][NextRate]_vars

(* C20: over fetch_data calls made one after another, retries included,    *)
(* the last_request stamps of two requests in a row are at least           *)
(* RATE_LIMIT apart.                                                       *)
C20_RequestsAtLeastRateLimitApart ==
    rt.minGap >= RateTicks

\* a second call and a retry have both sent their request, rate_limit
\* slept, and two requests were exactly RATE_LIMIT apart
C20_Witness ==
    /\ rt.calls >= 1 /\ rt.retry_count >= 1 /\ rt.pc = "response"
    /\ rt.slept >= 1 /\ rt.requests >= 3
    /\ rt.minGap = RateTicks

(***************************************************************************)
(* fetch_mlb_data.main interrupted and run again.                          *)
(*                                                                         *)
(* To have the result of an uninterrupted run at hand, the run is first    *)
(* played without interruption on an empty store; its final store is kept  *)
(* in rr.single.  Then the script is run on an empty store again, with the *)
(* same vendor answers: it may be interrupted once a phase has written,    *)
(* which loses the locals of main and keeps the store, and is then started *)
(* from the top.                                                           *)
(*   mode        "single" while the uninterrupted run is played, "again"   *)
(*               afterwards                                                *)
(*   single      the store the uninterrupted run ended with                *)
(*   interrupts  interruptions so far                                      *)
(***************************************************************************)
\* a fresh process: the locals of main are gone, the store is st
Restarted(m, st) ==
    [MlIdle EXCEPT !.pc = "league", !.teams = m.teams, !.rosters = m.rosters,
                   !.player_stats = m.player_stats, !.games = m.games,
                   !.selectRaises = m.selectRaises, !.unique = m.unique,
                   !.store = st]

\* the uninterrupted run is over; the script is set up on an empty store
main_single_run_ends ==
    /\ rr.mode = "single" /\ ml.pc = "done" /\ ml.league_id # 0
    /\ rr' = [rr EXCEPT !.mode = "again", !.single = ml.store]
    /\ ml' = Restarted(ml, EmptyStore)
    /\ UNCHANGED OthersOfRerun

\* the process is killed after a phase has written to the store, and the
\* script is started again
main_interrupted ==
    /\ rr.mode = "again" /\ rr.interrupts < MaxInterrupts
    /\ ml.pc \in {"rosters", "upsert_players", "stats", "games", "done"}
    /\ ml.store # EmptyStore
    /\ rr' = [rr EXCEPT !.interrupts = @ + 1]
    /\ ml' = Restarted(ml, ml.store)
    /\ UNCHANGED OthersOfRerun

\* every vendor record carries its id
Identified(m) ==
    /\ \A k \in DOMAIN m.teams : m.teams[k] # 0
    /\ \A k \in DOMAIN m.rosters :
          \A n \in DOMAIN m.rosters[k] : m.rosters[k][n] # 0

InitRerun ==
    /\ MlInit
    /\ Identified(ml)
    /\ rr = [RrIdle EXCEPT !.mode = "single"]
    /\ up = UpIdle /\ sm = SmIdle /\ pg = PgIdle /\ fd = FdIdle /\ rl = RlIdle
    /\ ca = CaIdle /\ us = UsIdle /\ pp = PpIdle /\ tl = TlIdle
    /\ sl = SlIdle /\ ex = ExIdle /\ pu = PuIdle /\ rt = RtIdle
    /\ nm = NmIdle
    /\ cs = CsIdle
    /\ er = ErIdle
    /\ cd = CdIdle
    /\ sb = SbIdle

NextRerun ==
    \/ MlNext
    \/ main_single_run_ends
    \/ main_interrupted

SpecRerun == InitRerun /\ [][NextRerun]_vars

(* C21: when a run of fetch_mlb_data.main is interrupted after a completed *)
(* write and the script is run again from the start on the same vendor     *)
(* data, the store ends as an uninterrupted run leaves it: no duplicated   *)
(* and no missing rows.                                                    *)
C21_RerunEqualsSingleRun ==
    (rr.mode = "again" /\ rr.interrupts > 0 /\ ml.pc = "done"
       /\ ml.league_id # 0)
    => ml.store = rr.single

(***************************************************************************)
(* Height and weight normalisation: NBADataSync.process_player,            *)
(* fetch_nba_data.prepare_player_rows and                                  *)
(* scrape_espn_rosters_html.parse_height.                                  *)
(*                                                                         *)
(* A Python string is the sequence of its characters.  A Python value is   *)
(* [t, n, s]: t is "int", "str" or "None", n the number of an int, s the   *)
(* characters of a str.                                                    *)
(*   fn            the function applied                                    *)
(*   feet, inches  the height given, as the string F'I"                    *)
(*   pounds, suffix   the weight given: its digits followed by suffix      *)
(*   out           the value the function yields                           *)
(*   plain         for a weight, what it yields for the digits alone       *)
(***************************************************************************)
IntValue(n) == [t |-> "int", n |-> n, s |-> <<>>]

StrValue(s) == [t |-> "str", n |-> 0, s |-> s]

NoneValue == [t |-> "None", n |-> 0, s |-> <<>>]

DigitChars == <<"0", "1", "2", "3", "4", "5", "6", "7", "8", "9">>

IsDigit(c) == \E d \in 1..10 : DigitChars[d] = c

DigitOf(c) == (CHOOSE d \in 1..10 : DigitChars[d] = c) - 1

\* str(n) of a non-negative int
RECURSIVE DigitsOf(_)
DigitsOf(n) ==
    IF n < 10 THEN <<DigitChars[n + 1]>>
    ELSE DigitsOf(n \div 10) \o <<DigitChars[(n % 10) + 1]>>

\* pat in s
Contains(s, pat) ==
    \E i \in 1..(Len(s) - Len(pat) + 1) : SubSeq(s, i, i + Len(pat) - 1) = pat

\* s.replace(pat, '')
RECURSIVE Remove(_, _)
Remove(s, pat) ==
    IF Len(s) < Len(pat) THEN s
    ELSE IF SubSeq(s, 1, Len(pat)) = pat
    THEN Remove(SubSeq(s, Len(pat) + 1, Len(s)), pat)
    ELSE <<s[1]>> \o Remove(Tail(s), pat)

\* s.strip()
RECURSIVE StripChars(_)
StripChars(s) ==
    IF s = <<>> THEN s
    ELSE IF s[1] = " " THEN StripChars(Tail(s))
    ELSE IF s[Len(s)] = " " THEN StripChars(SubSeq(s, 1, Len(s) - 1))
    ELSE s

\* s.split(c): the pieces between the occurrences of c
RECURSIVE SplitOn(_, _)
SplitOn(s, c) ==
    IF \A i \in DOMAIN s : s[i] # c THEN <<s>>
    ELSE LET i == CHOOSE j \in DOMAIN s :
                     s[j] = c /\ \A k \in 1..(j - 1) : s[k] # c
         IN <<SubSeq(s, 1, i - 1)>> \o SplitOn(SubSeq(s, i + 1, Len(s)), c)

\* the number written by digits
RECURSIVE NumberOf(_)
NumberOf(s) ==
    IF s = <<>> THEN 0
    ELSE NumberOf(SubSeq(s, 1, Len(s) - 1)) * 10 + DigitOf(s[Len(s)])

\* int(s): blanks around the digits are accepted; -1 stands for ValueError
IntOf(s) ==
    LET d == StripChars(s)
    IN IF d # <<>> /\ \A i \in DOMAIN d : IsDigit(d[i]) THEN NumberOf(d)
       ELSE -1

\* a conversion that takes a foot for ten inches
FeetAndInchesDecimal(feet, inches) == feet * 10 + inches

\* int(feet) * 12 + int(inches)
FeetAndInches(feet, inches) == feet * 12 + inches

\* feet, inches = h.replace('"', '').split("'");
\* int(feet) * 12 + int(inches.strip() or 0); None on ValueError
HeightFromParts(s) ==
    LET parts == SplitOn(Remove(s, <<"\"">>), "'")
    IN IF Len(parts) # 2 THEN NoneValue
       ELSE LET feet == IntOf(parts[1])
                inches == IF StripChars(parts[2]) = <<>> THEN 0
                          ELSE IntOf(parts[2])
            IN IF feet = -1 \/ inches = -1 THEN NoneValue
               ELSE IntValue(FeetAndInches(feet, inches))

\* process_player: a height that is no string gives None
process_player_height(h) ==
    IF h.t = "str" THEN HeightFromParts(h.s) ELSE NoneValue

\* prepare_player_rows: only a string with a double quote is converted
prepare_player_rows_height(h) ==
    IF h.t = "str" /\ Contains(h.s, <<"\"">>) THEN HeightFromParts(h.s)
    ELSE h

\* the longest run of digits s starts with
RECURSIVE LeadingDigits(_)
LeadingDigits(s) ==
    IF s # <<>> /\ IsDigit(s[1]) THEN <<s[1]>> \o LeadingDigits(Tail(s))
    ELSE <<>>

\* re.match(r"(\d+)'(\d+)", ht_str)
parse_height(s) ==
    LET feet == LeadingDigits(s)
        rest == SubSeq(s, Len(feet) + 1, Len(s))
        inches == IF rest # <<>> /\ rest[1] = "'"
                  THEN LeadingDigits(Tail(rest)) ELSE <<>>
    IN IF feet # <<>> /\ inches # <<>>
       THEN IntValue(FeetAndInches(NumberOf(feet), NumberOf(inches)))
       ELSE NoneValue

\* process_player: int(...) of what is left of a string with 'lbs' in it;
\* every other value is kept as it is
process_player_weight(w) ==
    IF w.t = "str" /\ Contains(w.s, <<"l", "b", "s">>)
    THEN LET n == IntOf(StripChars(Remove(w.s, <<"l", "b", "s">>)))
         IN IF n = -1 THEN NoneValue ELSE IntValue(n)
    ELSE w

\* prepare_player_rows: the string without 'lbs', stripped
prepare_player_rows_weight(w) ==
    IF w.t = "str" /\ Contains(w.s, <<"l", "b", "s">>)
    THEN StrValue(StripChars(Remove(w.s, <<"l", "b", "s">>)))
    ELSE w

HeightFunctions ==
    {"process_player", "prepare_player_rows", "parse_height"}

WeightFunctions == {"process_player", "prepare_player_rows"}

\* the string F'I"
HeightString(feet, inches) ==
    DigitsOf(feet) \o <<"'">> \o DigitsOf(inches) \o <<"\"">>

\* a height is normalised
normalise_height ==
    /\ nm.pc = "height"
    /\ LET s == HeightString(nm.feet, nm.inches)
       IN nm' = [nm EXCEPT
                    !.pc = "done height",
                    !.out = CASE nm.fn = "process_player" ->
                                    process_player_height(StrValue(s))
                              [] nm.fn = "prepare_player_rows" ->
                                    prepare_player_rows_height(StrValue(s))
                              [] OTHER -> parse_height(s)]
    /\ UNCHANGED OthersOfNm

\* a weight with its suffix is normalised, and so are its digits alone
normalise_weight ==
    /\ nm.pc = "weight"
    /\ LET f(w) == IF nm.fn = "process_player" THEN process_player_weight(w)
                   ELSE prepare_player_rows_weight(w)
       IN nm' = [nm EXCEPT
                    !.pc = "done weight",
                    !.out = f(StrValue(DigitsOf(nm.pounds) \o nm.suffix)),
                    !.plain = f(StrValue(DigitsOf(nm.pounds)))]
    /\ UNCHANGED OthersOfNm

InitNormalise ==
    /\ \/ \E fn \in HeightFunctions :
          \E feet \in 0..MaxFeet : \E inches \in 0..MaxInches :
             nm = [NmIdle EXCEPT !.pc = "height", !.fn = fn, !.feet = feet,
                                 !.inches = inches]
       \/ \E fn \in WeightFunctions : \E pounds \in 0..MaxPounds :
          \E suffix \in {<<"l", "b", "s">>, <<" ", "l", "b", "s">>} :
             nm = [NmIdle EXCEPT !.pc = "weight", !.fn = fn,
                                 !.pounds = pounds, !.suffix = suffix]
    /\ up = UpIdle /\ sm = SmIdle /\ pg = PgIdle /\ fd = FdIdle /\ rl = RlIdle
    /\ ca = CaIdle /\ us = UsIdle /\ ml = MlIdle /\ pp = PpIdle
    /\ tl = TlIdle /\ sl = SlIdle /\ ex = ExIdle /\ pu = PuIdle
    /\ rt = RtIdle /\ rr = RrIdle
    /\ cs = CsIdle
    /\ er = ErIdle
    /\ cd = CdIdle
    /\ sb = SbIdle

NextNormalise == normalise_height \/ normalise_weight

SpecNormalise == InitNormalise /\ [][NextNormalise]_vars

(* C22: a weight string with a trailing 'lbs' and the same digits without  *)
(* it both yield the number written by the digits.                         *)
C22_SuffixedAndPlainYieldTheNumber ==
    nm.pc = "done weight"
    => (nm.out = IntValue(nm.pounds) /\ nm.plain = IntValue(nm.pounds))

(* C23: the height string F'I" yields F*12 + I inches in process_player,   *)
(* prepare_player_rows and parse_height.                                   *)
C23_HeightInInches ==
    nm.pc = "done height" => nm.out = IntValue(nm.feet * 12 + nm.inches)

\* 6'11" went through parse_height
C23_Witness ==
    /\ nm.pc = "done height" /\ nm.fn = "parse_height"
    /\ nm.feet = 6 /\ nm.inches = 11 /\ nm.out.n = 83

(***************************************************************************)
(* NBAPlayerStatsFetcher.get_all_players_stats and fetch_player_stats      *)
(* (fetch_current_season_stats.py).  One action is one request of          *)
(* fetch_player_stats with what follows it up to the next request.         *)
(*   n             records the vendor holds                                *)
(*   batch_size, capped, max_players   the arguments (capped is FALSE for  *)
(*                 max_players=None)                                       *)
(*   held          len(all_players)                                        *)
(*   offset, request_delay, current_limit   the locals of the paginator    *)
(*   attempt       the loop variable of fetch_player_stats                 *)
(*   requests, pages   requests sent, pages received                       *)
(*   lastLen       length of the last page received                        *)
(*   wrongLimit    a page was asked for with a limit other than            *)
(*                 min(batch_size, max_players - held)                     *)
(*   endedOn       the error message the pagination ended on, if any       *)
(*   sameOffsetAgain   times the paginator asked again for the same offset *)
(*                 after an error                                          *)
(* An error message is the sequence of its words.                          *)
(***************************************************************************)
\* fetch_player_stats(..., max_retries=3, ...)
STATS_MAX_RETRIES == 3

MaxRetriesExceeded == <<"Max", "retries", "exceeded">>

HttpError == <<"HTTP", "error:", "500">>

RequestError == <<"Request", "error:", "timeout">>

\* "Rate limit" in data['error']
MentionsRateLimit(error) == Contains(error, <<"Rate", "limit">>)

\* a limit that ignores max_players
CurrentLimitUncapped(batch_size, capped, max_players, held) == batch_size

\* current_limit = batch_size, or min(batch_size, max_players - held)
CurrentLimit(batch_size, capped, max_players, held) ==
    IF capped THEN Min(batch_size, max_players - held) ELSE batch_size

\* the top of the while loop: break at the cap, else the next request
LoopTop(c) ==
    IF c.capped /\ c.held >= c.max_players THEN [c EXCEPT !.pc = "done"]
    ELSE LET limit == CurrentLimit(c.batch_size, c.capped, c.max_players,
                                   c.held)
         IN [c EXCEPT !.pc = "request", !.attempt = 0,
                      !.current_limit = limit,
                      !.wrongLimit = @ \/ (c.capped /\
                          limit # Min(c.batch_size, c.max_players - c.held))]

\* "error" in data: a message about the rate limit doubles the delay, and
\* the loop goes on at the same offset; any other message ends the loop
OnError(c, error) ==
    IF MentionsRateLimit(error)
    THEN LoopTop([c EXCEPT !.request_delay = Min(60, @ * 2),
                           !.sameOffsetAgain = @ + 1])
    ELSE [c EXCEPT !.pc = "done", !.endedOn = error]

\* a page of batch records: short page ends the loop, else the offset moves
\* on and the delay is halved, not below 2
OnPage(c, batch) ==
    LET d == [c EXCEPT !.held = @ + batch, !.pages = @ + 1,
                       !.lastLen = batch]
    IN IF batch < c.current_limit THEN [d EXCEPT !.pc = "done"]
       ELSE LoopTop([d EXCEPT !.offset = @ + batch,
                              !.request_delay =
                                  IF @ \div 2 > 2 THEN @ \div 2 ELSE 2])

get_all_players_stats_enter ==
    /\ cs.pc = "enter"
    /\ cs' = LoopTop(cs)
    /\ UNCHANGED OthersOfCs

\* the request is answered with a page
fetch_player_stats_page ==
    /\ cs.pc = "request"
    /\ cs' = OnPage([cs EXCEPT !.requests = @ + 1],
                    Len(ServerPage(cs.n, cs.current_limit, cs.offset)))
    /\ UNCHANGED OthersOfCs

\* the request is answered 429: sleep and continue; when the attempts are
\* used up the function returns "Max retries exceeded"
fetch_player_stats_rate_limited ==
    /\ cs.pc = "request"
    /\ LET c == [cs EXCEPT !.requests = @ + 1, !.attempt = @ + 1]
       IN cs' = IF c.attempt < STATS_MAX_RETRIES THEN c
                ELSE OnError(c, MaxRetriesExceeded)
    /\ UNCHANGED OthersOfCs

\* another error status: the function returns "HTTP error: ..."
fetch_player_stats_http_error ==
    /\ cs.pc = "request"
    /\ cs' = OnError([cs EXCEPT !.requests = @ + 1], HttpError)
    /\ UNCHANGED OthersOfCs

\* the request fails: retried while attempts are left, then
\* "Request error: ..." is returned
fetch_player_stats_request_error ==
    /\ cs.pc = "request"
    /\ LET c == [cs EXCEPT !.requests = @ + 1]
       IN cs' = IF cs.attempt < STATS_MAX_RETRIES - 1
                THEN [c EXCEPT !.attempt = @ + 1]
                ELSE OnError(c, RequestError)
    /\ UNCHANGED OthersOfCs

InitStats ==
    /\ \E n \in 0..MaxStatsRecords : \E batch_size \in 1..MaxBatchSize :
       \E capped \in BOOLEAN : \E max_players \in 0..MaxCap :
          /\ ~capped => max_players = 0
          /\ cs = [CsIdle EXCEPT !.pc = "enter", !.n = n,
                                 !.batch_size = batch_size,
                                 !.capped = capped,
                                 !.max_players = max_players]
    /\ up = UpIdle /\ sm = SmIdle /\ pg = PgIdle /\ fd = FdIdle /\ rl = RlIdle
    /\ ca = CaIdle /\ us = UsIdle /\ ml = MlIdle /\ pp = PpIdle
    /\ tl = TlIdle /\ sl = SlIdle /\ ex = ExIdle /\ pu = PuIdle
    /\ rt = RtIdle /\ rr = RrIdle /\ nm = NmIdle
    /\ er = ErIdle
    /\ cd = CdIdle
    /\ sb = SbIdle

NextStats ==
    \/ get_all_players_stats_enter
    \/ fetch_player_stats_page
    \/ fetch_player_stats_rate_limited
    \/ fetch_player_stats_http_error
    \/ fetch_player_stats_request_error

SpecStats == InitStats /\ [][NextStats]_vars

(* C24: with max_players = M, every page is asked for with the limit       *)
(* min(batch_size, M - held), no request is made once M records are held   *)
(* or a page shorter than its limit has arrived, and never more than M     *)
(* records are held.                                                       *)
C24_CapRespected ==
    cs.capped =>
      /\ ~cs.wrongLimit
      /\ cs.held <= cs.max_players
      /\ cs.pc = "request" =>
            /\ cs.held < cs.max_players
            /\ cs.current_limit = Min(cs.batch_size,
                                      cs.max_players - cs.held)
            /\ cs.pages > 0 => cs.lastLen = cs.batch_size
      /\ (cs.pages > 0 /\ cs.pc # "request" /\ cs.endedOn = <<>>) =>
            (cs.held = cs.max_players \/ cs.lastLen < cs.batch_size
               \/ cs.lastLen < cs.max_players - (cs.held - cs.lastLen))

\* the cap cut the last page short of batch_size and ended the pagination
\* while the vendor had more
C24_Witness ==
    /\ cs.capped /\ cs.pc = "done" /\ cs.pages = 2
    /\ cs.held = cs.max_players /\ cs.lastLen < cs.batch_size
    /\ cs.n > cs.held

(* C26: a page that is still rate limited when fetch_player_stats has used *)
(* up its retries does not end the pagination: the paginator doubles its   *)
(* delay and asks for the same offset again.                               *)
C26_RateLimitedPageIsAskedAgain ==
    cs.endedOn # MaxRetriesExceeded

(* C25: in sync_players_to_db, a batch whose upsert failed on a missing    *)
(* column that add_column_if_not_exists then added is tried again (as a    *)
(* batch that succeeds, or row by row), and every batch after it that      *)
(* holds a row to write is attempted.                                      *)
C25_ColumnAddedBatchRetried ==
    (up.script = "sync_players_to_db" /\ up.pc = "done") =>
       \A i \in up.colAdded :
          /\ \/ i \in up.batchOk
             \/ \A n \in 1..Len(CleanBatch([up EXCEPT !.i = i])) :
                   up.rowTried[CleanBatch([up EXCEPT !.i = i])[n]] >= 1
          /\ \A later \in ChunkStarts(Len(up.todo)) :
                (later > i /\ CleanBatch([up EXCEPT !.i = later]) # <<>>)
                   => later \in up.batchTried

(***************************************************************************)
(* scrape_espn_rosters_html.py: main and upsert_players.                   *)
(*   rosters          per team of MLB_TEAMS, the number of players         *)
(*                    fetch_and_parse_roster finds                         *)
(*   t, p             the team main is at, the player upsert_players is at *)
(*   upserted         the <<team, player>> pairs an upsert succeeded for   *)
(*   returned         per team, what upsert_players returned               *)
(*   processed_teams  the set main keeps                                   *)
(***************************************************************************)
\* the end of one pass of the loop of main
NextTeam(r) ==
    IF r.t < Len(r.rosters) THEN [r EXCEPT !.pc = "team", !.t = @ + 1, !.p = 0]
    ELSE [r EXCEPT !.pc = "done", !.p = 0]

\* success = upsert_players(players); if success: processed_teams.add(name)
Returned(r, success) ==
    NextTeam([r EXCEPT !.returned[r.t] = IF success THEN "True" ELSE "False",
                       !.processed_teams =
                           IF success THEN @ \cup {r.t} ELSE @])

\* players = fetch_and_parse_roster(abbr, name); if players: upsert_players
main_fetch_and_parse_roster ==
    /\ er.pc = "team"
    /\ er' = IF er.rosters[er.t] = 0 THEN NextTeam(er)
             ELSE [er EXCEPT !.pc = "player", !.p = 1]
    /\ UNCHANGED OthersOfEr

\* the roster page cannot be parsed: the except of main logs it
main_fetch_and_parse_roster_raises ==
    /\ er.pc = "team"
    /\ er' = NextTeam(er)
    /\ UNCHANGED OthersOfEr

\* the body of  for player in players  succeeds: return True
upsert_players_player_ok ==
    /\ er.pc = "player"
    /\ er' = Returned([er EXCEPT !.upserted = @ \cup {<<er.t, er.p>>}], TRUE)
    /\ UNCHANGED OthersOfEr

\* the select or the upsert raises, or the result carries an error:
\* return False
upsert_players_player_raises ==
    /\ er.pc = "player"
    /\ er' = Returned(er, FALSE)
    /\ UNCHANGED OthersOfEr

InitRosters ==
    /\ \E rosters \in [1..MaxRosterTeams -> 0..MaxRoster] :
          er = [ErIdle EXCEPT !.pc = "team", !.rosters = rosters, !.t = 1,
                              !.returned = [k \in 1..MaxRosterTeams |-> "none"]]
    /\ up = UpIdle /\ sm = SmIdle /\ pg = PgIdle /\ fd = FdIdle /\ rl = RlIdle
    /\ ca = CaIdle /\ us = UsIdle /\ ml = MlIdle /\ pp = PpIdle
    /\ tl = TlIdle /\ sl = SlIdle /\ ex = ExIdle /\ pu = PuIdle
    /\ rt = RtIdle /\ rr = RrIdle /\ nm = NmIdle /\ cs = CsIdle
    /\ cd = CdIdle
    /\ sb = SbIdle

NextRosters ==
    \/ main_fetch_and_parse_roster
    \/ main_fetch_and_parse_roster_raises
    \/ upsert_players_player_ok
    \/ upsert_players_player_raises

SpecRosters == InitRosters /\ [][NextRosters]_vars

(* C27: when upsert_players has returned True for a roster, and so when    *)
(* the team is in processed_teams, an upsert was issued for every player   *)
(* of that roster.                                                         *)
C27_TrueMeansEveryPlayerUpserted ==
    \A team \in 1..Len(er.rosters) :
       (er.returned[team] = "True" \/ team \in er.processed_teams) =>
          \A player \in 1..er.rosters[team] : <<team, player>> \in er.upserted

(***************************************************************************)
(* cleanup_duplicate_teams.py: cleanup_duplicate_teams.                    *)
(*   before           the teams table when the function is called: per id  *)
(*                    the espn_id of the row                               *)
(*   table            the teams table now                                  *)
(*   teams_to_delete  the ids of the rows selected for deletion            *)
(*   k                the position in teams_to_delete the delete loop is at*)
(* An espn_id is None or a string of characters.                           *)
(***************************************************************************)
EspnIds ==
    {NoneValue, StrValue(<<>>), StrValue(<<"7">>), StrValue(<<"1", "2">>),
     StrValue(<<"n", "_", "7">>), StrValue(<<"7", "a">>)}

\* a test that takes any digit in the string for a numeric id
ToDeleteAnyDigit(espn_id) ==
    /\ espn_id.t = "str"
    /\ \E n \in 1..Len(espn_id.s) : IsDigit(espn_id.s[n])

\* team.get('espn_id') and team['espn_id'].isdigit()
ToDelete(espn_id) ==
    /\ espn_id.t = "str"
    /\ espn_id.s # <<>>
    /\ \A n \in 1..Len(espn_id.s) : IsDigit(espn_id.s[n])

\* the table without the row of an id
Without(table, id) == [x \in DOMAIN table \ {id} |-> table[x]]

\* the select succeeds: the rows to delete are picked in the order of the
\* answer; with none the function returns
cleanup_duplicate_teams_select ==
    /\ cd.pc = "call"
    /\ LET picked == SelectSeq(Iota(Len(cd.table)),
                               LAMBDA id : ToDelete(cd.table[id]))
       IN cd' = [cd EXCEPT !.teams_to_delete = picked,
                           !.pc = IF picked = <<>> THEN "done" ELSE "delete",
                           !.k = 1]
    /\ UNCHANGED OthersOfCd

\* the select raises: printed and raised again
cleanup_duplicate_teams_select_raises ==
    /\ cd.pc = "call"
    /\ cd' = [cd EXCEPT !.pc = "raised"]
    /\ UNCHANGED OthersOfCd

\* delete().eq('id', team['id']) succeeds
cleanup_duplicate_teams_delete ==
    /\ cd.pc = "delete"
    /\ cd' = [cd EXCEPT !.table = Without(@, cd.teams_to_delete[cd.k]),
                        !.k = @ + 1,
                        !.pc = IF cd.k = Len(cd.teams_to_delete)
                               THEN "done" ELSE "delete"]
    /\ UNCHANGED OthersOfCd

\* the delete raises, with the row deleted or not: the loop ends, the
\* error is printed and raised again
cleanup_duplicate_teams_delete_raises ==
    /\ cd.pc = "delete"
    /\ \E gone \in BOOLEAN :
          cd' = [cd EXCEPT !.pc = "raised",
                           !.table = IF gone
                                     THEN Without(@, cd.teams_to_delete[cd.k])
                                     ELSE @]
    /\ UNCHANGED OthersOfCd

InitCleanup ==
    /\ \E n \in 0..MaxCleanupRows : \E rows \in [1..n -> EspnIds] :
          cd = [CdIdle EXCEPT !.pc = "call", !.before = rows, !.table = rows]
    /\ up = UpIdle /\ sm = SmIdle /\ pg = PgIdle /\ fd = FdIdle /\ rl = RlIdle
    /\ ca = CaIdle /\ us = UsIdle /\ ml = MlIdle /\ pp = PpIdle
    /\ tl = TlIdle /\ sl = SlIdle /\ ex = ExIdle /\ pu = PuIdle
    /\ rt = RtIdle /\ rr = RrIdle /\ nm = NmIdle /\ cs = CsIdle
    /\ er = ErIdle
    /\ sb = SbIdle

NextCleanup ==
    \/ cleanup_duplicate_teams_select
    \/ cleanup_duplicate_teams_select_raises
    \/ cleanup_duplicate_teams_delete
    \/ cleanup_duplicate_teams_delete_raises

SpecCleanup == InitCleanup /\ [][NextCleanup]_vars

\* the espn_id is a non-empty string of the characters 0..9
OnlyDigits(espn_id) ==
    /\ espn_id # NoneValue
    /\ espn_id.s # <<>>
    /\ \A n \in 1..Len(espn_id.s) : \E d \in 1..10 : espn_id.s[n] = DigitChars[d]

(* C28: cleanup_duplicate_teams deletes exactly the rows whose espn_id is  *)
(* non-empty and only digits: a row with an empty, null or prefixed        *)
(* espn_id is in the table, unchanged, at every moment; when the function  *)
(* has returned no row with an all-digit espn_id is left; and when a       *)
(* delete has raised, the rows after the one it was issued for are still   *)
(* in place.                                                               *)
C28_DeletesExactlyNumericIds ==
    /\ \A id \in DOMAIN cd.table :
          id \in DOMAIN cd.before /\ cd.table[id] = cd.before[id]
    /\ \A id \in DOMAIN cd.before :
          ~OnlyDigits(cd.before[id]) => id \in DOMAIN cd.table
    /\ cd.pc = "done" =>
          \A id \in DOMAIN cd.before :
             OnlyDigits(cd.before[id]) => id \notin DOMAIN cd.table
    /\ (cd.pc = "raised" /\ cd.k > 0) =>
          \A n \in (cd.k + 1)..Len(cd.teams_to_delete) :
             cd.teams_to_delete[n] \in DOMAIN cd.table

\* a delete raised after an earlier one had gone through, with a row to
\* delete not yet reached and a prefixed row in the table
C28_Witness ==
    /\ cd.pc = "raised" /\ cd.k = 2 /\ Len(cd.teams_to_delete) > 2
    /\ Len(cd.before) > Len(cd.teams_to_delete)

(* C29: when a page request of get_players or get_all_players fails, it is *)
(* the last request: the loop is over, and the list returned holds exactly *)
(* the records of the pages before it, all of them full pages, which is    *)
(* the list a vendor holding only those records would have led to.         *)
C29_FailedPageEndsPagination ==
    pg.failed =>
       /\ pg.pc = "done"
       /\ Len(pg.pageLens) = pg.requests - 1
       /\ \A k \in 1..Len(pg.pageLens) : pg.pageLens[k] = pg.limit
       /\ pg.offset = (pg.requests - 1) * pg.limit
       /\ pg.players = Iota((pg.requests - 1) * pg.limit)

\* the third request failed after two full pages, with records left at the
\* vendor
C29_Witness ==
    /\ pg.failed /\ pg.requests = 3
    /\ Len(pg.players) = 2 * pg.limit /\ pg.n > Len(pg.players)

(***************************************************************************)
(* The stats phase of NBADataSync.run (nba_data_sync.py).  The players are *)
(* 1..total_players; the loop over slices of 10 and the loop over a slice  *)
(* visit them in order.  sync_player_stats_to_db catches what its store    *)
(* calls raise and returns a count, so a flush does not raise.             *)
(*   at          the player the loop is at                                 *)
(*   stats_list  the buffer: the players whose stats wait to be handed on  *)
(*   handed      per player, how often its stats record was in a list      *)
(*               passed to sync_player_stats_to_db                         *)
(*   returned    the players get_player_stats returned a record for        *)
(*   flushes     calls of sync_player_stats_to_db                          *)
(*   completed   the loop and the last flush have run                      *)
(***************************************************************************)
\* sync_player_stats_to_db(stats_list) is called
Handed(handed, list) ==
    [p \in DOMAIN handed |->
        handed[p] + Cardinality({n \in 1..Len(list) : list[n] = p})]

\* a flush that does not empty the buffer
AppendStatsKeepsList(s, player_id) ==
    LET list == Append(s.stats_list, player_id)
    IN IF Len(list) >= StatsFlushAt
       THEN [s EXCEPT !.handed = Handed(@, list), !.flushes = @ + 1,
                      !.stats_list = list]
       ELSE [s EXCEPT !.stats_list = list]

\* stats_list.append(stats); at the flush length the list is handed to
\* sync_player_stats_to_db and emptied
AppendStats(s, player_id) ==
    LET list == Append(s.stats_list, player_id)
    IN IF Len(list) >= StatsFlushAt
       THEN [s EXCEPT !.handed = Handed(@, list), !.flushes = @ + 1,
                      !.stats_list = <<>>]
       ELSE [s EXCEPT !.stats_list = list]

\* after the last player: if stats_list: sync_player_stats_to_db(stats_list)
AfterPlayer(s) ==
    IF s.at < s.total_players THEN [s EXCEPT !.at = @ + 1]
    ELSE IF s.stats_list # <<>>
    THEN [s EXCEPT !.pc = "done", !.completed = TRUE,
                   !.handed = Handed(@, s.stats_list), !.flushes = @ + 1]
    ELSE [s EXCEPT !.pc = "done", !.completed = TRUE]

\* the player ids are read; with none the phase returns
run_stats_player_ids ==
    /\ sb.pc = "ids"
    /\ sb' = IF sb.total_players = 0 THEN [sb EXCEPT !.pc = "done"]
             ELSE [sb EXCEPT !.pc = "table"]
    /\ UNCHANGED OthersOfSb

\* reading the player ids raises: the except of the phase logs it
run_stats_player_ids_raises ==
    /\ sb.pc = "ids"
    /\ sb' = [sb EXCEPT !.pc = "done"]
    /\ UNCHANGED OthersOfSb

\* nba_player_season_stats can be read: the loop starts
run_stats_table_ok ==
    /\ sb.pc = "table"
    /\ sb' = [sb EXCEPT !.pc = "player", !.at = 1]
    /\ UNCHANGED OthersOfSb

\* it cannot: logged, return
run_stats_table_raises ==
    /\ sb.pc = "table"
    /\ sb' = [sb EXCEPT !.pc = "done"]
    /\ UNCHANGED OthersOfSb

\* get_player_stats returns a record
run_stats_player_stats ==
    /\ sb.pc = "player"
    /\ sb' = AfterPlayer([AppendStats(sb, sb.at) EXCEPT
                              !.returned = @ \cup {sb.at},
                              !.processed = @ + 1])
    /\ UNCHANGED OthersOfSb

\* get_player_stats returns None
run_stats_player_none ==
    /\ sb.pc = "player"
    /\ sb' = AfterPlayer([sb EXCEPT !.processed = @ + 1])
    /\ UNCHANGED OthersOfSb

InitStatsPhase ==
    /\ \E total_players \in 0..MaxStatsIds :
          sb = [SbIdle EXCEPT !.pc = "ids", !.total_players = total_players,
                              !.handed = [p \in 1..total_players |-> 0]]
    /\ up = UpIdle /\ sm = SmIdle /\ pg = PgIdle /\ fd = FdIdle /\ rl = RlIdle
    /\ ca = CaIdle /\ us = UsIdle /\ ml = MlIdle /\ pp = PpIdle
    /\ tl = TlIdle /\ sl = SlIdle /\ ex = ExIdle /\ pu = PuIdle
    /\ rt = RtIdle /\ rr = RrIdle /\ nm = NmIdle /\ cs = CsIdle
    /\ er = ErIdle /\ cd = CdIdle

NextStatsPhase ==
    \/ run_stats_player_ids
    \/ run_stats_player_ids_raises
    \/ run_stats_table_ok
    \/ run_stats_table_raises
    \/ run_stats_player_stats
    \/ run_stats_player_none

SpecStatsPhase == InitStatsPhase /\ [][NextStatsPhase]_vars

\* the players whose record waits in the buffer
Buffered == {sb.stats_list[n] : n \in 1..Len(sb.stats_list)}

(* C30: in the stats phase of run, a record get_player_stats returned is   *)
(* handed to sync_player_stats_to_db at most once, and waits in the buffer *)
(* until then; the buffer never reaches the flush length between players;  *)
(* and when the phase has completed every record returned was handed on    *)
(* exactly once, in one flush per full buffer and one more for a           *)
(* remainder, so that none waits in the buffer.                            *)
C30_EveryRecordHandedOnce ==
    /\ \A p \in DOMAIN sb.handed :
          /\ sb.handed[p] <= 1
          /\ p \notin sb.returned => (sb.handed[p] = 0 /\ p \notin Buffered)
          /\ (p \in sb.returned /\ ~sb.completed) =>
                (sb.handed[p] = 0 <=> p \in Buffered)
    /\ Len(sb.stats_list) < StatsFlushAt
    /\ sb.completed =>
          /\ \A p \in sb.returned : sb.handed[p] = 1
          /\ sb.flushes = (Cardinality(sb.returned) \div StatsFlushAt)
               + (IF Cardinality(sb.returned) % StatsFlushAt = 0 THEN 0 ELSE 1)

\* the phase completed after a flush of a full buffer and a flush of a
\* remainder, with a player in between that had no stats
C30_Witness ==
    /\ sb.completed /\ sb.flushes = 2
    /\ Cardinality(sb.returned) > StatsFlushAt
    /\ Cardinality(sb.returned) < sb.total_players

====
